---- MODULE Spec2Model ----
(***************************************************************************)
(* Windows Automation Toolkit (Drakaniia/shetty): a model of the           *)
(* confirmation prompt, the command runners, the PowerShell script runner, *)
(* the winget / npm installers, the power-plan GUID extraction, the menu   *)
(* renderer and the module menu loops.                                     *)
(*                                                                         *)
(* Text is modelled as a sequence of one-character strings (or, for URLs   *)
(* and stderr, of words), so that lower(), strip(), "in" and f-string      *)
(* formatting are computed and not assumed.                                *)
(***************************************************************************)
EXTENDS Integers, Sequences, FiniteSets, TLC

VARIABLES
    \* ---- SystemUtils.get_confirmation / the inline Node.js prompt
    cf_pc,        \* "prompt" (blocked in input()) | "returned"
    cf_site,      \* which call site asked
    cf_response,  \* the raw line last read by input()
    cf_ret,       \* "none" | "True" | "False" : the value returned
    cf_reads,     \* number of lines read so far by this call
    \* ---- SystemUtils.run_powershell_script
    ps_pc,        \* "idle" | "confirm" | "exec" | "returned" | "raised"
    script_url,   \* the script_url argument
    ps_command,   \* the PowerShell command written to the temporary file
    temp_files,   \* temporary .ps1 files that exist
    temp_created, \* temporary .ps1 files created by this call
    ps_spawned,   \* powershell processes spawned by this call
    ps_report,    \* what the caller of run_powershell_script printed
    ps_raised,    \* the call of the try block that raised
    ps_answer,    \* what get_confirmation returned to run_powershell_script
    ps_exit,      \* how the powershell child ended
    ps_ret,       \* "none" | "True" | "False" : the value returned
    \* ---- SystemUtils.run_command / run_powershell_command
    rc_pc,        \* "idle" | "running" | "returned"
    rc_call,      \* the call: function, interactive, bypass_policy
    rc_args,      \* the argument vector handed to subprocess.run
    rc_outcome,   \* how the child ended, with its stdout and stderr
    rc_ret,       \* the (success, output) pair returned
    \* ---- install_app_winget_version / install_app_winget / install_npm_tool
    in_pc,        \* "idle" | "running" | "returned"
    in_call,      \* the call: function, package, version
    in_args,      \* the argument vector handed to subprocess.run
    in_spawned,   \* child processes spawned by this call
    in_outcome,   \* how the child ended, with its stderr
    in_ret,       \* "none" | "True" | "False" : the value returned
    \* ---- PowerManagement: the actions of the power menu
    pw_pc,        \* position in show_power_menu and the action it runs
    pw_output,    \* the text last handed to extract_guid_from_output
    pw_guid,      \* what extract_guid_from_output last returned (<<>>: None)
    pw_base,      \* base_guid of create_custom_plan
    pw_name,      \* plan_name of create_custom_plan
    pw_cmds,      \* the external commands issued by the running action
    pw_printed,   \* the messages printed by the running action
    pw_action,    \* the action the power menu last started
    pw_active,    \* what activate_power_plan last returned ("none" before)
    pw_answer,    \* what get_confirmation last returned in the running action
    \* ---- SystemUtils.print_menu
    mn_pc,        \* "idle" | "called" | "printed"
    mn_title,     \* the title argument
    mn_options,   \* the options mapping, in insertion order
    mn_width,     \* max_option_length as computed
    mn_printed,   \* the lines printed
    \* ---- the program: main menu and the feature modules' menu loops
    fl_pc,        \* where the program is blocked (an input() or a child process)
    fl_env,       \* the executables check_program_exists can reach
    apps,         \* AppInstaller.apps
    tools,        \* AIToolsInstaller.tools
    fl_idx,       \* index of the entry an install-all loop is working on
    fl_menu,      \* the menu rendered last
    fl_spawned,   \* commands spawned since the last menu choice
    fl_response,  \* the line input() returned last
    fl_msgs,      \* what the last step printed
    \* ---- the probes: check_program_exists and check_autohotkey_installed
    pb_pc,        \* "idle" | "probing" | "returned" | "raised" | "caught" | "escaped"
    pb_site,      \* the call site, with the function and the program name
    pb_cands,     \* the candidate executables, in the order tried
    pb_i,         \* index of the candidate being probed
    pb_log,       \* how each candidate tried so far ended
    pb_ret,       \* "none" | "True" | "False" : the value returned
    pb_exc,       \* the exception that left the probe function
    \* ---- one blocking subprocess.run of the program
    wt_pc,        \* "idle" | "waiting" (blocked in subprocess.run) | "returned"
    wt_site,      \* the call, with its timeout argument
    wt_result,    \* how subprocess.run came back
    \* ---- one call of an install function or of activate_power_plan
    at_pc,        \* "idle" | "running" (the command's child is alive) | "returned"
    at_call,      \* the function called and what its checks before the command find
    at_spawns,    \* times this call has spawned its command
    at_result,    \* how the last child ended
    at_ret,       \* "none" (None) | "True" | "False" : the value returned
    \* ---- WindowsAutomationToolkit.run: the elevation at startup
    el_pc,        \* "start" | "confirm" | "shell_execute" | "main_menu" | "exited"
    is_admin,     \* SystemUtils.is_admin
    el_response,  \* the line input() returned last
    el_asked,     \* calls of get_confirmation made
    el_shell,     \* what ShellExecuteW did
    el_msgs,      \* the warnings printed
    \* ---- get_menu_choice (system.py:347-377)
    gc_pc,        \* position in get_menu_choice
    gc_path,      \* "keypress" (msvcrt imported) or "line" (ImportError)
    gc_options,   \* keys of the options mapping
    gc_key,       \* the key or stripped line last read
    gc_ret,       \* the choice returned
    gc_msg,       \* last message printed
    gc_reads,     \* keys or lines read so far
    gc_byte,      \* the byte msvcrt.getch() last returned, -1 before the first
    \* ---- Debloat menu (debloat.py:16-86)
    db_pc,        \* position in show_debloat_menu
    db_scripts,   \* self.scripts, the three configured categories
    db_shown,     \* the numbered entries last rendered
    db_choice,    \* the stripped line last read
    db_ran,       \* the script handed to run_powershell_script for that line
    db_msg,       \* last message printed
    \* ---- run_script (autohotkey.py:151-193)
    rs_pc,        \* position in run_script
    rs_calls,     \* calls of run_script so far
    rs_child,     \* the process this program launched: "none", "alive" or "exited"
    rs_other,     \* another AutoHotkey64.exe is in the process list
    rs_launches,  \* processes launched by the current call
    rs_polls,     \* polls of the process list after the wait, current call
    rs_first,     \* what is_script_running reported before the launch
    rs_second,    \* what is_script_running reported after the wait
    rs_msg,       \* last message printed
    \* ---- create_script (autohotkey.py:121-149)
    cs_pc,        \* position in create_script
    cs_home,      \* os.path.expanduser("~") at construction
    cs_dir,       \* <Documents>/AutoHotKey exists
    cs_file,      \* automation.ahk in that directory
    cs_log,       \* per finished call: success, the file afterwards, the path printed
    cs_msg,       \* last message printed
    \* ---- Custom entries and the AI tools menu (installer.py:316-331, ai_tools.py:51-70, 277-292)
    cu_kind,      \* the list operated on: "apps" (self.apps) or "tools" (self.tools)
    cu_list,      \* that list
    cu_before,    \* the list before the last add or remove
    cu_op,        \* the last add or remove and its arguments
    cu_ret,       \* what it returned
    cu_pc,        \* position in show_ai_tools_menu
    cu_options,   \* the options of the menu on screen, in dict order
    cu_choice,    \* the key get_menu_choice returned
    cu_ran,       \* the action that key started
    \* ---- show_app_options (installer.py:53-100)
    ao_pc,        \* position in show_app_options
    ao_app,       \* the app whose options are shown
    ao_options,   \* the options on screen, in dict order
    ao_choice,    \* the key get_menu_choice returned
    ao_call,      \* the arguments of install_app_winget_version, once called
    ao_msg,       \* last message printed
    ao_rounds,    \* menus rendered so far
    \* ---- run_script and add_to_startup on the script file (SpecStartup)
    su_pc,        \* position in run_script or add_to_startup
    su_op,        \* the method called
    su_appdata,   \* value of APPDATA
    su_files,     \* paths of the files that exist
    su_launches,  \* AutoHotkey processes started by this call
    su_msg,       \* message printed by this call
    su_calls,     \* calls made so far
    \* ---- calls made by install_all_apps and install_all_tools (SpecFlow)
    fl_calls      \* the install calls made by the running install-all loop

confirmVars == <<cf_pc, cf_site, cf_response, cf_ret, cf_reads>>

scriptVars ==
    <<ps_pc, script_url, ps_command, temp_files, temp_created, ps_spawned, ps_exit, ps_ret,
      ps_report, ps_raised, ps_answer>>

runnerVars == <<rc_pc, rc_call, rc_args, rc_outcome, rc_ret>>

installVars == <<in_pc, in_call, in_args, in_spawned, in_outcome, in_ret>>

powerVars == <<pw_pc, pw_output, pw_guid, pw_base, pw_name, pw_cmds, pw_printed, pw_action, pw_active, pw_answer>>

menuVars == <<mn_pc, mn_title, mn_options, mn_width, mn_printed>>

flowVars ==
    <<fl_pc, fl_env, apps, tools, fl_idx, fl_menu, fl_spawned, fl_response, fl_msgs>>

probeVars == <<pb_pc, pb_site, pb_cands, pb_i, pb_log, pb_ret, pb_exc>>

waitVars == <<wt_pc, wt_site, wt_result>>

attemptVars == <<at_pc, at_call, at_spawns, at_result, at_ret>>

elevateVars == <<el_pc, is_admin, el_response, el_asked, el_shell, el_msgs>>

choiceVars == <<gc_pc, gc_path, gc_options, gc_key, gc_ret, gc_msg, gc_reads, gc_byte>>

debloatVars == <<db_pc, db_scripts, db_shown, db_choice, db_ran, db_msg>>

runVars == <<rs_pc, rs_calls, rs_child, rs_other, rs_launches, rs_polls, rs_first, rs_second, rs_msg>>

createVars == <<cs_pc, cs_home, cs_dir, cs_file, cs_log, cs_msg>>

customVars == <<cu_kind, cu_list, cu_before, cu_op, cu_ret, cu_pc, cu_options, cu_choice, cu_ran>>

optionsVars == <<ao_pc, ao_app, ao_options, ao_choice, ao_call, ao_msg, ao_rounds>>

startupVars == <<su_pc, su_op, su_appdata, su_files, su_launches, su_msg, su_calls>>

loopVars == <<fl_calls>>

vars == <<confirmVars, scriptVars, runnerVars, installVars, powerVars, menuVars, flowVars, probeVars, waitVars, attemptVars, elevateVars, choiceVars, debloatVars, runVars, createVars, customVars, optionsVars, startupVars, loopVars>>

\* What each specification leaves alone.
notConfirm == <<scriptVars, runnerVars, installVars, powerVars, menuVars, flowVars, probeVars, waitVars, attemptVars, elevateVars, choiceVars, debloatVars, runVars, createVars, customVars, optionsVars, startupVars, loopVars>>

notScript == <<confirmVars, runnerVars, installVars, powerVars, menuVars, flowVars, probeVars, waitVars, attemptVars, elevateVars, choiceVars, debloatVars, runVars, createVars, customVars, optionsVars, startupVars, loopVars>>

notRunner == <<confirmVars, scriptVars, installVars, powerVars, menuVars, flowVars, probeVars, waitVars, attemptVars, elevateVars, choiceVars, debloatVars, runVars, createVars, customVars, optionsVars, startupVars, loopVars>>

notInstall == <<confirmVars, scriptVars, runnerVars, powerVars, menuVars, flowVars, probeVars, waitVars, attemptVars, elevateVars, choiceVars, debloatVars, runVars, createVars, customVars, optionsVars, startupVars, loopVars>>

notPower == <<confirmVars, scriptVars, runnerVars, installVars, menuVars, flowVars, probeVars, waitVars, attemptVars, elevateVars, choiceVars, debloatVars, runVars, createVars, customVars, optionsVars, startupVars, loopVars>>

notMenu == <<confirmVars, scriptVars, runnerVars, installVars, powerVars, flowVars, probeVars, waitVars, attemptVars, elevateVars, choiceVars, debloatVars, runVars, createVars, customVars, optionsVars, startupVars, loopVars>>

notFlow == <<confirmVars, scriptVars, runnerVars, installVars, powerVars, menuVars, probeVars, waitVars, attemptVars, elevateVars, choiceVars, debloatVars, runVars, createVars, customVars, optionsVars, startupVars, loopVars>>

notFlowLoop == <<confirmVars, scriptVars, runnerVars, installVars, powerVars, menuVars, probeVars, waitVars, attemptVars, elevateVars, choiceVars, debloatVars, runVars, createVars, customVars, optionsVars, startupVars>>

notProbe == <<confirmVars, scriptVars, runnerVars, installVars, powerVars, menuVars, flowVars, waitVars, attemptVars, elevateVars, choiceVars, debloatVars, runVars, createVars, customVars, optionsVars, startupVars, loopVars>>

notWait == <<confirmVars, scriptVars, runnerVars, installVars, powerVars, menuVars, flowVars, probeVars, attemptVars, elevateVars, choiceVars, debloatVars, runVars, createVars, customVars, optionsVars, startupVars, loopVars>>

notAttempt == <<confirmVars, scriptVars, runnerVars, installVars, powerVars, menuVars, flowVars, probeVars, waitVars, elevateVars, choiceVars, debloatVars, runVars, createVars, customVars, optionsVars, startupVars, loopVars>>

notElevate == <<confirmVars, scriptVars, runnerVars, installVars, powerVars, menuVars, flowVars, probeVars, waitVars, attemptVars, choiceVars, debloatVars, runVars, createVars, customVars, optionsVars, startupVars, loopVars>>

notChoice == <<confirmVars, scriptVars, runnerVars, installVars, powerVars, menuVars, flowVars, probeVars, waitVars, attemptVars, elevateVars, debloatVars, runVars, createVars, customVars, optionsVars, startupVars, loopVars>>

notDebloat == <<confirmVars, scriptVars, runnerVars, installVars, powerVars, menuVars, flowVars, probeVars, waitVars, attemptVars, elevateVars, choiceVars, runVars, createVars, customVars, optionsVars, startupVars, loopVars>>

notRun == <<confirmVars, scriptVars, runnerVars, installVars, powerVars, menuVars, flowVars, probeVars, waitVars, attemptVars, elevateVars, choiceVars, debloatVars, createVars, customVars, optionsVars, startupVars, loopVars>>

notCreate == <<confirmVars, scriptVars, runnerVars, installVars, powerVars, menuVars, flowVars, probeVars, waitVars, attemptVars, elevateVars, choiceVars, debloatVars, runVars, customVars, optionsVars, startupVars, loopVars>>

notCustom == <<confirmVars, scriptVars, runnerVars, installVars, powerVars, menuVars, flowVars, probeVars, waitVars, attemptVars, elevateVars, choiceVars, debloatVars, runVars, createVars, optionsVars, startupVars, loopVars>>

notOptions == <<confirmVars, scriptVars, runnerVars, installVars, powerVars, menuVars, flowVars, probeVars, waitVars, attemptVars, elevateVars, choiceVars, debloatVars, runVars, createVars, customVars, startupVars, loopVars>>

notStartup == <<confirmVars, scriptVars, runnerVars, installVars, powerVars, menuVars, flowVars, probeVars, waitVars, attemptVars, elevateVars, choiceVars, debloatVars, runVars, createVars, customVars, optionsVars, loopVars>>

notLoop == <<confirmVars, scriptVars, runnerVars, installVars, powerVars, menuVars, flowVars, probeVars, waitVars, attemptVars, elevateVars, choiceVars, debloatVars, runVars, createVars, customVars, optionsVars, startupVars>>

(***************************************************************************)
(* Bounds of the model.                                                    *)
(***************************************************************************)
MaxInputLen == 4
MaxSiteInputLen == 2
MaxReads == 3
MaxUrlLen == 3
MaxExitCode == 2
MaxChunks == 2
MaxOutputChunks == 2
MaxOptions == 3
MaxPerCategory == 2
MaxCalls == 2
MaxCustom == 2

(***************************************************************************)
(* Text helpers.                                                           *)
(***************************************************************************)
RECURSIVE SeqsUpTo(_, _)
SeqsUpTo(S, n) ==
    IF n = 0 THEN {<<>>}
    ELSE LET shorter == SeqsUpTo(S, n - 1)
         IN  shorter \cup {Append(s, c) : s \in {t \in shorter : Len(t) = n - 1}, c \in S}

UpperToLower ==
    ("A" :> "a") @@ ("B" :> "b") @@ ("C" :> "c") @@ ("D" :> "d") @@ ("E" :> "e")
        @@ ("F" :> "f") @@ ("G" :> "g") @@ ("H" :> "h") @@ ("I" :> "i") @@ ("J" :> "j")
        @@ ("K" :> "k") @@ ("L" :> "l") @@ ("M" :> "m") @@ ("N" :> "n") @@ ("O" :> "o")
        @@ ("P" :> "p") @@ ("Q" :> "q") @@ ("R" :> "r") @@ ("S" :> "s") @@ ("T" :> "t")
        @@ ("U" :> "u") @@ ("V" :> "v") @@ ("W" :> "w") @@ ("X" :> "x") @@ ("Y" :> "y")
        @@ ("Z" :> "z")

\* str.lower(): every cased character is mapped to its lowercase form.
LowerChar(c) == IF c \in DOMAIN UpperToLower THEN UpperToLower[c] ELSE c

Lower(s) == [i \in 1..Len(s) |-> LowerChar(s[i])]

IsSpace(c) == c \in {" ", "\t"}

RECURSIVE LStrip(_)
LStrip(s) == IF s # <<>> /\ IsSpace(Head(s)) THEN LStrip(Tail(s)) ELSE s

RECURSIVE RStrip(_)
RStrip(s) ==
    IF s # <<>> /\ IsSpace(s[Len(s)]) THEN RStrip(SubSeq(s, 1, Len(s) - 1)) ELSE s

\* str.strip(): leading and trailing whitespace removed.
Strip(s) == RStrip(LStrip(s))

\* Python's `needle in hay` on character sequences.
IsSubstr(needle, hay) ==
    \E i \in 0..(Len(hay) - Len(needle)) : SubSeq(hay, i + 1, i + Len(needle)) = needle

RECURSIVE Concat(_)
Concat(chunks) == IF chunks = <<>> THEN <<>> ELSE Head(chunks) \o Concat(Tail(chunks))

\* `s` is `w` written in any mix of upper and lower case.
SameLetters(s, w) ==
    /\ Len(s) = Len(w)
    /\ \A i \in 1..Len(w) : s[i] = w[i] \/ (s[i] \in DOMAIN UpperToLower /\ UpperToLower[s[i]] = w[i])

(***************************************************************************)
(* SystemUtils.get_confirmation: one pass of the while-True loop on the    *)
(* line `raw`: "yes" (return True), "no" (return False) or "reprompt".     *)
(***************************************************************************)
get_confirmation_no_default(raw) ==
    LET response == Strip(Lower(raw))
    IN  IF response \in {<<"y">>, <<"y", "e", "s">>} THEN "yes"
        ELSE IF response \in {<<"n">>, <<"n", "o">>} THEN "no"
        ELSE "reprompt"

\* A plausible slip: the negative answers fall through to the affirmative.
get_confirmation_never_false(raw) ==
    LET response == Strip(Lower(raw))
    IN  IF response = <<>> \/ response \in {<<"y">>, <<"y", "e", "s">>} THEN "yes"
        ELSE IF response \in {<<"n">>, <<"n", "o">>} THEN "yes"
        ELSE "reprompt"

get_confirmation(raw) ==
    LET response == Strip(Lower(raw))
    IN  IF response = <<>> \/ response \in {<<"y">>, <<"y", "e", "s">>} THEN "yes"
        ELSE IF response \in {<<"n">>, <<"n", "o">>} THEN "no"
        ELSE "reprompt"

\* AIToolsInstaller.show_ai_tools_menu, the inline "install Node.js and npm
\* now? (y/n)" prompt: read once, only 'y'/'yes' accepts.
node_prompt(raw) ==
    LET response == Lower(Strip(raw))
    IN  IF response \in {<<"y">>, <<"y", "e", "s">>} THEN "yes" ELSE "no"

\* The characters a user line is drawn from.
InputChars == {"y", "Y", "e", "E", "s", "n", "N", "o", " ", "x"}

InputLines == SeqsUpTo(InputChars, MaxInputLen)

\* The call sites of get_confirmation.
ConfirmSites ==
    {"elevation", "run_script", "install_all_apps", "install_all_tools",
     "iflow", "unlock", "activate", "open_power_options", "switch_plan",
     "activate_custom", "install_autohotkey"}

NodePromptSite == "node_prompt"

(***************************************************************************)
(* SpecConfirm: one call of get_confirmation (system.py:48-57), line by    *)
(* line.  cf_pc = "prompt": blocked in input(); "read": input() has        *)
(* returned cf_response; "returned": the function has returned cf_ret.     *)
(* After a re-prompt the old line is dead (the next input() overwrites     *)
(* it), so it is cleared.                                                  *)
(***************************************************************************)
\* How the powershell child of subprocess.run (no timeout) ends: an exit
\* code, or an exception raised by subprocess.run itself.
ScriptOutcomes ==
    [kind : {"exit"}, code : 0..MaxExitCode] \cup [kind : {"oserror"}, code : {-1}]

NoOutcome == [kind |-> "none", code |-> -1]

NoProbeSite == [site |-> "none", fn |-> "none", name |-> "", guarded |-> FALSE]

ProbeIdle ==
    /\ pb_pc = "idle"
    /\ pb_site = NoProbeSite
    /\ pb_cands = <<>>
    /\ pb_i = 0
    /\ pb_log = <<>>
    /\ pb_ret = "none"
    /\ pb_exc = "none"

NoWaitSite == [fn |-> "none", bounded |-> FALSE, seconds |-> 0]

NoWaitResult == [kind |-> "none", code |-> -1]

WaitIdle ==
    /\ wt_pc = "idle"
    /\ wt_site = NoWaitSite
    /\ wt_result = NoWaitResult

NoShell == [kind |-> "none", code |-> -1]

ElevateIdle ==
    /\ el_pc = "idle"
    /\ is_admin = FALSE
    /\ el_response = <<>>
    /\ el_asked = 0
    /\ el_shell = NoShell
    /\ el_msgs = <<>>

ChoiceIdle ==
    /\ gc_pc = "idle"
    /\ gc_path = "none"
    /\ gc_options = {}
    /\ gc_key = <<>>
    /\ gc_ret = <<>>
    /\ gc_msg = "none"
    /\ gc_reads = 0
    /\ gc_byte = -1

NoScript == [category |-> "none", key |-> 0]

NoScripts == [debloat |-> <<>>, tweaks |-> <<>>, activation |-> <<>>]

DebloatIdle ==
    /\ db_pc = "idle"
    /\ db_scripts = NoScripts
    /\ db_shown = <<>>
    /\ db_choice = <<>>
    /\ db_ran = NoScript
    /\ db_msg = "none"

RunIdle ==
    /\ rs_pc = "idle"
    /\ rs_calls = 0
    /\ rs_child = "none"
    /\ rs_other = FALSE
    /\ rs_launches = 0
    /\ rs_polls = 0
    /\ rs_first = "none"
    /\ rs_second = "none"
    /\ rs_msg = "none"

NoFile == [exists |-> FALSE, content |-> <<>>]

NoPath == <<>>

CreateIdle ==
    /\ cs_pc = "idle"
    /\ cs_home = ""
    /\ cs_dir = FALSE
    /\ cs_file = NoFile
    /\ cs_log = <<>>
    /\ cs_msg = "none"

NoOp == [fn |-> "none", key |-> "", name |-> ""]

NoAction == [kind |-> "none", name |-> ""]

CustomIdle ==
    /\ cu_kind = "none"
    /\ cu_list = <<>>
    /\ cu_before = <<>>
    /\ cu_op = NoOp
    /\ cu_ret = "none"
    /\ cu_pc = "idle"
    /\ cu_options = <<>>
    /\ cu_choice = ""
    /\ cu_ran = NoAction

NoApp == [id |-> "", name |-> ""]

NoInstallCall == [id |-> "", name |-> "", version |-> ""]

OptionsIdle ==
    /\ ao_pc = "idle"
    /\ ao_app = NoApp
    /\ ao_options = <<>>
    /\ ao_choice = ""
    /\ ao_call = NoInstallCall
    /\ ao_msg = "none"
    /\ ao_rounds = 0

StartupIdle ==
    /\ su_pc = "idle"
    /\ su_op = "none"
    /\ su_appdata = ""
    /\ su_files = {}
    /\ su_launches = 0
    /\ su_msg = "none"
    /\ su_calls = 0

LoopIdle ==
    /\ fl_calls = <<>>

ConfirmIdle ==
    /\ cf_pc = "idle"
    /\ cf_site = "none"
    /\ cf_response = <<>>
    /\ cf_ret = "none"
    /\ cf_reads = 0

ScriptIdle ==
    /\ ps_pc = "idle"
    /\ script_url = <<>>
    /\ ps_command = <<>>
    /\ temp_files = 0
    /\ temp_created = 0
    /\ ps_spawned = 0
    /\ ps_exit = NoOutcome
    /\ ps_ret = "none"
    /\ ps_report = "none"
    /\ ps_raised = "none"
    /\ ps_answer = "none"

NoCall == [fn |-> "none", command |-> "", interactive |-> FALSE, bypass_policy |-> FALSE]

NoResult == [kind |-> "none", code |-> -1, stdout |-> <<>>, stderr |-> <<>>]

NoReturn == [success |-> "none", output |-> <<>>]

RunnerIdle ==
    /\ rc_pc = "idle"
    /\ rc_call = NoCall
    /\ rc_args = <<>>
    /\ rc_outcome = NoResult
    /\ rc_ret = NoReturn

NoInstall == [fn |-> "none", package |-> "", version |-> <<>>]

NoInstallResult == [kind |-> "none", code |-> -1, stderr |-> <<>>]

InstallIdle ==
    /\ in_pc = "idle"
    /\ in_call = NoInstall
    /\ in_args = <<>>
    /\ in_spawned = 0
    /\ in_outcome = NoInstallResult
    /\ in_ret = "none"

NoAttempt == [fn |-> "none", proceeds |-> FALSE]

AttemptIdle ==
    /\ at_pc = "idle"
    /\ at_call = NoAttempt
    /\ at_spawns = 0
    /\ at_result = NoInstallResult
    /\ at_ret = "none"

PowerIdle ==
    /\ pw_pc = "idle"
    /\ pw_output = <<>>
    /\ pw_guid = <<>>
    /\ pw_base = <<>>
    /\ pw_name = <<>>
    /\ pw_cmds = <<>>
    /\ pw_printed = <<>>
    /\ pw_action = "none"
    /\ pw_active = "none"
    /\ pw_answer = "none"

\* settings.py:45-51
ESSENTIAL_APPS ==
    <<[id |-> "Microsoft.VisualStudioCode", name |-> "Visual Studio Code"],
      [id |-> "Yandex.Browser", name |-> "Yandex Browser"],
      [id |-> "OpenJS.NodeJS", name |-> "Node.js LTS"],
      [id |-> "Git.Git", name |-> "Git"],
      [id |-> "AutoHotkey.AutoHotkey", name |-> "AutoHotKey"]>>

\* settings.py:54-57
AI_TOOLS ==
    <<[package |-> "opencode-ai", name |-> "OpenCode AI"],
      [package |-> "@qwen-code/qwen-code@latest", name |-> "Qwen Code CLI"]>>

FlowIdle ==
    /\ fl_pc = "idle"
    /\ fl_env = {}
    /\ apps = ESSENTIAL_APPS
    /\ tools = AI_TOOLS
    /\ fl_idx = 0
    /\ fl_menu = "none"
    /\ fl_spawned = <<>>
    /\ fl_response = <<>>
    /\ fl_msgs = "none"

MenuIdle ==
    /\ mn_pc = "idle"
    /\ mn_title = <<>>
    /\ mn_options = <<>>
    /\ mn_width = 0
    /\ mn_printed = <<>>

ConfirmInit ==
    /\ LoopIdle
    /\ StartupIdle
    /\ OptionsIdle
    /\ CustomIdle
    /\ CreateIdle
    /\ RunIdle
    /\ DebloatIdle
    /\ ChoiceIdle
    /\ ElevateIdle
    /\ AttemptIdle
    /\ WaitIdle
    /\ ProbeIdle
    /\ FlowIdle
    /\ MenuIdle
    /\ ScriptIdle
    /\ RunnerIdle
    /\ InstallIdle
    /\ PowerIdle
    /\ cf_pc = "prompt"
    /\ cf_site = "elevation"
    /\ cf_response = <<>>
    /\ cf_ret = "none"
    /\ cf_reads = 0

\* input() returns the line the user typed.
TypeLine(lines) ==
    /\ cf_pc = "prompt"
    /\ cf_reads < MaxReads
    /\ \E raw \in lines : cf_response' = raw
    /\ cf_pc' = "read"
    /\ cf_reads' = cf_reads + 1
    /\ UNCHANGED <<cf_site, cf_ret>>
    /\ UNCHANGED notConfirm

\* The body of the loop of get_confirmation on the line read.
ReadLine ==
    /\ cf_pc = "read"
    /\ cf_site \in ConfirmSites
    /\ LET r == get_confirmation(cf_response)
       IN  /\ cf_pc' = IF r = "reprompt" THEN "prompt" ELSE "returned"
           /\ cf_ret' = IF r = "yes" THEN "True" ELSE IF r = "no" THEN "False" ELSE "none"
           /\ cf_response' = IF r = "reprompt" THEN <<>> ELSE cf_response
    /\ UNCHANGED <<cf_site, cf_reads>>
    /\ UNCHANGED notConfirm

\* The inline prompt of show_ai_tools_menu (ai_tools.py:27-28): one read,
\* no loop.
ReadNodePrompt ==
    /\ cf_pc = "read"
    /\ cf_site = NodePromptSite
    /\ cf_pc' = "returned"
    /\ cf_ret' = IF node_prompt(cf_response) = "yes" THEN "True" ELSE "False"
    /\ UNCHANGED <<cf_site, cf_response, cf_reads>>
    /\ UNCHANGED notConfirm

ConfirmNext ==
    \/ TypeLine(InputLines)
    \/ ReadLine

SpecConfirm == ConfirmInit /\ [][ConfirmNext]_vars

(***************************************************************************)
(* SpecSites: every yes/no question of the program, each answered through  *)
(* the code its call site uses.                                            *)
(***************************************************************************)
SiteLines == SeqsUpTo(InputChars, MaxSiteInputLen)

SitesInit ==
    /\ LoopIdle
    /\ StartupIdle
    /\ OptionsIdle
    /\ CustomIdle
    /\ CreateIdle
    /\ RunIdle
    /\ DebloatIdle
    /\ ChoiceIdle
    /\ ElevateIdle
    /\ AttemptIdle
    /\ WaitIdle
    /\ ProbeIdle
    /\ FlowIdle
    /\ ConfirmIdle
    /\ MenuIdle
    /\ PowerIdle
    /\ InstallIdle
    /\ ScriptIdle
    /\ RunnerIdle

\* The program reaches the question of `site`.
Ask(site) ==
    /\ cf_pc \in {"idle", "returned"}
    /\ cf_pc' = "prompt"
    /\ cf_site' = site
    /\ cf_response' = <<>>
    /\ cf_ret' = "none"
    /\ cf_reads' = 0
    /\ UNCHANGED notConfirm

SitesNext ==
    \/ \E site \in ConfirmSites \cup {NodePromptSite} : Ask(site)
    \/ TypeLine(SiteLines)
    \/ ReadLine
    \/ ReadNodePrompt

SpecSites == SitesInit /\ [][SitesNext]_vars

(***************************************************************************)
(* SystemUtils.run_powershell_script (system.py:110-181).  A URL is a      *)
(* sequence of words; "marker in script_url" holds when a word is the      *)
(* marker.  The command is the f-string: the fixed text around the URL.    *)
(***************************************************************************)
UrlWords ==
    {"https://", "get.activated.win", "win11debloat.raphi.re", "christitus.com/win",
     "git.io/debloat11", "example.com/"}

Urls == SeqsUpTo(UrlWords, MaxUrlLen)

\* Python's `marker in text` on word sequences.
Contains(text, marker) == \E i \in 1..Len(text) : text[i] = marker

\* A plausible slip: the win11debloat test placed before the activation test.
ps_command_for_reordered(url) ==
    IF Contains(url, "win11debloat.raphi.re")
    THEN <<"& ([scriptblock]::Create((irm \"">> \o url \o <<"\")))">>
    ELSE IF Contains(url, "get.activated.win")
    THEN <<"irm ">> \o url \o <<" | iex">>
    ELSE IF Contains(url, "christitus.com/win")
    THEN <<"iwr -useb ">> \o url \o <<" | iex">>
    ELSE IF Contains(url, "git.io/debloat11")
    THEN <<"iwr ">> \o url \o <<"|iex">>
    ELSE <<"[scriptblock]::Create((irm \"">> \o url \o <<"\"))">>

\* system.py:123-142, the if / elif chain choosing ps_command.
ps_command_for(url) ==
    IF Contains(url, "get.activated.win")
    THEN <<"irm ">> \o url \o <<" | iex">>
    ELSE IF Contains(url, "win11debloat.raphi.re")
    THEN <<"& ([scriptblock]::Create((irm \"">> \o url \o <<"\")))">>
    ELSE IF Contains(url, "christitus.com/win")
    THEN <<"iwr -useb ">> \o url \o <<" | iex">>
    ELSE IF Contains(url, "git.io/debloat11")
    THEN <<"iwr ">> \o url \o <<"|iex">>
    ELSE <<"[scriptblock]::Create((irm \"">> \o url \o <<"\"))">>

\* The lines a user answers a flow's yes/no question with.
AnswerLines == {<<>>, <<"y">>, <<"Y", "e", "s">>, <<"n">>, <<" ", "N", "o">>, <<"x">>}

ScriptInit ==
    /\ LoopIdle
    /\ StartupIdle
    /\ OptionsIdle
    /\ CustomIdle
    /\ CreateIdle
    /\ RunIdle
    /\ DebloatIdle
    /\ ChoiceIdle
    /\ ElevateIdle
    /\ AttemptIdle
    /\ WaitIdle
    /\ ProbeIdle
    /\ FlowIdle
    /\ ConfirmIdle
    /\ MenuIdle
    /\ PowerIdle
    /\ InstallIdle
    /\ RunnerIdle
    /\ ps_pc = "confirm"
    /\ script_url \in Urls
    /\ ps_command = <<>>
    /\ temp_files = 0
    /\ temp_created = 0
    /\ ps_spawned = 0
    /\ ps_exit = NoOutcome
    /\ ps_ret = "none"
    /\ ps_report = "none"
    /\ ps_raised = "none"
    /\ ps_answer = "none"

\* A plausible slip: success only for exit code 0.
script_result_checking_code(outcome, removed_in_try, removed_in_handler) ==
    IF outcome.kind = "exit" /\ outcome.code = 0 /\ removed_in_try
    THEN [ret |-> "True", removed |-> TRUE, raised |-> "none"]
    ELSE [ret |-> "False",
          removed |-> (outcome.kind = "exit" /\ removed_in_try) \/ removed_in_handler,
          raised |-> IF outcome.kind # "exit" THEN "subprocess.run"
                     ELSE IF removed_in_try THEN "none" ELSE "os.remove"]

\* A plausible slip: the file is removed in the handler only.
script_result_keeping_file(outcome, removed_in_try, removed_in_handler) ==
    IF outcome.kind = "exit" /\ removed_in_try
    THEN [ret |-> "True", removed |-> FALSE, raised |-> "none"]
    ELSE [ret |-> "False", removed |-> removed_in_handler,
          raised |-> IF outcome.kind # "exit" THEN "subprocess.run" ELSE "os.remove"]

\* system.py:154-181: the try block and its handler.  subprocess.run
\* returns with any exit code or raises; os.remove (line 167) succeeds and
\* True is returned, or it raises; after either exception the handler tries
\* os.remove (line 176), swallows its failure, and False is returned.
script_result(outcome, removed_in_try, removed_in_handler) ==
    IF outcome.kind = "exit" /\ removed_in_try
    THEN [ret |-> "True", removed |-> TRUE, raised |-> "none"]
    ELSE [ret |-> "False", removed |-> removed_in_handler,
          raised |-> IF outcome.kind # "exit" THEN "subprocess.run" ELSE "os.remove"]

\* system.py:115-152: the confirmation is answered.  "no" returns False;
\* "yes" chooses the command and writes it to a new temporary file (whose
\* creation, outside the try, may raise); any other line asks again.
PsAnswer ==
    /\ ps_pc = "confirm"
    /\ \E raw \in AnswerLines, tempOk \in BOOLEAN :
         LET r == get_confirmation(raw)
         IN  CASE r = "reprompt" ->
                    UNCHANGED scriptVars
               [] r = "no" ->
                    /\ ps_pc' = "returned"
                    /\ ps_ret' = "False"
                    /\ ps_answer' = "no"
                    /\ UNCHANGED <<script_url, ps_command, temp_files, temp_created,
                                   ps_spawned, ps_exit, ps_report, ps_raised>>
               [] r = "yes" ->
                    /\ ps_command' = ps_command_for(script_url)
                    /\ ps_answer' = "yes"
                    /\ ps_pc' = IF tempOk THEN "exec" ELSE "raised"
                    /\ temp_files' = IF tempOk THEN temp_files + 1 ELSE temp_files
                    /\ temp_created' = IF tempOk THEN temp_created + 1 ELSE temp_created
                    /\ UNCHANGED <<script_url, ps_spawned, ps_exit, ps_ret, ps_report, ps_raised>>
    /\ UNCHANGED notScript

\* system.py:154-181: subprocess.run starts powershell and waits for it, or
\* raises without a process (kind "oserror"); then the temporary file is
\* removed and the result returned.
PsProcessEnds ==
    /\ ps_pc = "exec"
    /\ \E outcome \in ScriptOutcomes, removed_in_try \in BOOLEAN, removed_in_handler \in BOOLEAN :
         LET result == script_result(outcome, removed_in_try, removed_in_handler)
         IN  /\ ps_exit' = outcome
             /\ ps_spawned' = IF outcome.kind = "exit" THEN ps_spawned + 1 ELSE ps_spawned
             /\ temp_files' = IF result.removed THEN temp_files - 1 ELSE temp_files
             /\ ps_ret' = result.ret
             /\ ps_raised' = result.raised
    /\ ps_pc' = "returned"
    /\ UNCHANGED <<script_url, ps_command, temp_created, ps_report, ps_answer>>
    /\ UNCHANGED notScript

\* debloat.py:78-83: the caller prints the verdict from the returned value.
PsReport ==
    /\ ps_pc = "returned"
    /\ ps_report' = IF ps_ret = "True" THEN "completed_successfully" ELSE "failed"
    /\ ps_pc' = "reported"
    /\ UNCHANGED <<script_url, ps_command, temp_files, temp_created, ps_spawned, ps_exit,
                   ps_ret, ps_raised, ps_answer>>
    /\ UNCHANGED notScript

ScriptNext == PsAnswer \/ PsProcessEnds \/ PsReport

SpecScript == ScriptInit /\ [][ScriptNext]_vars

(***************************************************************************)
(* SystemUtils.run_command (system.py:183-209) and run_powershell_command  *)
(* (system.py:59-108).  The child ends with an exit code, or               *)
(* subprocess.run raises TimeoutExpired or another exception.              *)
(***************************************************************************)
Texts == {<<>>, <<"text">>}

RunOutcomes ==
    [kind : {"exit"}, code : 0..MaxExitCode, stdout : Texts, stderr : Texts]
        \cup [kind : {"timeout", "oserror"}, code : {-1}, stdout : {<<>>}, stderr : {<<>>}]

\* Command lines the program hands to the runners.
Commands == {"powercfg -list", "powercfg /getactivescheme"}

RunnerCalls ==
    [fn : {"run_command"}, command : Commands, interactive : {FALSE}, bypass_policy : {FALSE}]
        \cup [fn : {"run_powershell_command"}, command : Commands,
               interactive : BOOLEAN, bypass_policy : BOOLEAN]

\* system.py:62-71: the PowerShell argument vector.
ps_args(command, bypass_policy, interactive) ==
    <<"powershell">>
        \o (IF bypass_policy THEN <<"-ExecutionPolicy", "Bypass">> ELSE <<>>)
        \o (IF interactive THEN <<"-NoExit", "-WindowStyle", "Normal">> ELSE <<>>)
        \o <<"-Command", command>>

\* The except clauses shared by both runners (system.py:103-108, 204-209).
runner_except(res) ==
    IF res.kind = "timeout"
    THEN [success |-> "False", output |-> <<"Command timed out">>]
    ELSE [success |-> "False", output |-> <<"str(e)">>]

\* A plausible slip: the exit code is not looked at.
run_command_result_any_code(res) ==
    IF res.kind = "exit"
    THEN [success |-> "True", output |-> res.stdout]
    ELSE runner_except(res)

\* system.py:195-209.
run_command_result(res) ==
    IF res.kind = "exit"
    THEN IF res.code = 0
         THEN [success |-> "True", output |-> res.stdout]
         ELSE [success |-> "False", output |-> res.stderr]
    ELSE runner_except(res)

\* system.py:75-108.
run_powershell_command_result(interactive, res) ==
    IF res.kind = "exit"
    THEN IF interactive
         THEN [success |-> "True", output |-> <<>>]
         ELSE IF res.code = 0
              THEN [success |-> "True", output |-> res.stdout]
              ELSE [success |-> "False", output |-> res.stderr]
    ELSE runner_except(res)

RunnerInit ==
    /\ LoopIdle
    /\ StartupIdle
    /\ OptionsIdle
    /\ CustomIdle
    /\ CreateIdle
    /\ RunIdle
    /\ DebloatIdle
    /\ ChoiceIdle
    /\ ElevateIdle
    /\ AttemptIdle
    /\ WaitIdle
    /\ ProbeIdle
    /\ FlowIdle
    /\ ConfirmIdle
    /\ MenuIdle
    /\ PowerIdle
    /\ InstallIdle
    /\ ScriptIdle
    /\ RunnerIdle

\* A caller invokes one of the runners; subprocess.run is entered.
RcCall ==
    /\ rc_pc \in {"idle", "returned"}
    /\ \E call \in RunnerCalls :
         /\ rc_call' = call
         /\ rc_args' = IF call.fn = "run_command"
                       THEN <<call.command>>
                       ELSE ps_args(call.command, call.bypass_policy, call.interactive)
    /\ rc_pc' = "running"
    /\ rc_outcome' = NoResult
    /\ rc_ret' = NoReturn
    /\ UNCHANGED notRunner

\* subprocess.run returns or raises, and the runner returns its pair.
RcProcessEnds ==
    /\ rc_pc = "running"
    /\ \E res \in RunOutcomes :
         /\ rc_outcome' = res
         /\ rc_ret' = IF rc_call.fn = "run_command"
                      THEN run_command_result(res)
                      ELSE run_powershell_command_result(rc_call.interactive, res)
    /\ rc_pc' = "returned"
    /\ UNCHANGED <<rc_call, rc_args>>
    /\ UNCHANGED notRunner

RunnerNext == RcCall \/ RcProcessEnds

SpecRunner == RunnerInit /\ [][RunnerNext]_vars

(***************************************************************************)
(* C2.  As claimed: every runner, in every mode, returns success exactly   *)
(* when the child's exit code is 0.                                        *)
(***************************************************************************)
C2_SuccessIffExitZero ==
    rc_pc = "returned" =>
        (rc_ret.success = "True" <=> (rc_outcome.kind = "exit" /\ rc_outcome.code = 0))

(***************************************************************************)
(* C2, amended.  run_command and the non-interactive run_powershell_command*)
(* return success exactly when the exit code is 0; the interactive         *)
(* run_powershell_command returns success for every exit code; a timeout   *)
(* and any other exception return success = false, differing only in the   *)
(* output text, and the call always returns.                               *)
(***************************************************************************)
C2_SuccessByMode ==
    /\ rc_pc \in {"idle", "running", "returned"}
    /\ rc_pc = "returned" =>
          /\ rc_ret.success \in {"True", "False"}
          /\ (rc_call.fn = "run_command" \/ ~rc_call.interactive) =>
                (rc_ret.success = "True" <=> (rc_outcome.kind = "exit" /\ rc_outcome.code = 0))
          /\ (rc_call.fn = "run_powershell_command" /\ rc_call.interactive) =>
                (rc_ret.success = "True" <=> rc_outcome.kind = "exit")
          /\ rc_outcome.kind \in {"timeout", "oserror"} => rc_ret.success = "False"
          /\ rc_outcome.kind = "timeout" => rc_ret.output = <<"Command timed out">>
          /\ rc_outcome.kind = "oserror" => rc_ret.output # <<"Command timed out">>

\* run_command returned failure for a child that exited non-zero.
C2_Witness ==
    /\ rc_pc = "returned"
    /\ rc_call.fn = "run_command"
    /\ rc_outcome.kind = "exit"
    /\ rc_outcome.code = 2
    /\ rc_ret.success = "False"

(***************************************************************************)
(* AppInstaller.install_app_winget_version (installer.py:111-159),         *)
(* AppInstaller.install_app_winget (installer.py:172-216) and              *)
(* AIToolsInstaller.install_npm_tool (ai_tools.py:100-136).  stderr is a   *)
(* character sequence, put together from up to MaxChunks pieces.           *)
(***************************************************************************)
StderrChunks ==
    {<<"a", "l", "r", "e", "a", "d", "y", " ", "i", "n", "s", "t", "a", "l", "l", "e", "d">>,
     <<"A", "l", "r", "e", "a", "d", "y", " ", "I", "n", "s", "t", "a", "l", "l", "e", "d">>,
     <<"A", "L", "R", "E", "A", "D", "Y", " ", "E", "X", "I", "S", "T", "S">>,
     <<"u", "p", " ", "t", "o", " ", "d", "a", "t", "e">>,
     <<"U", "p", " ", "T", "o", " ", "D", "a", "t", "e">>,
     <<"a", "l", "r", "e", "a", "d", "y">>,
     <<" ">>,
     <<"i", "n", "s", "t", "a", "l", "l", "e", "d">>,
     <<"e", "x", "i", "s", "t", "s">>,
     <<"N", "o", " ", "p", "a", "c", "k", "a", "g", "e", " ", "f", "o", "u", "n", "d">>}

StderrTexts == {Concat(cs) : cs \in SeqsUpTo(StderrChunks, MaxChunks)}

InstallOutcomes ==
    [kind : {"exit"}, code : 0..MaxExitCode, stderr : StderrTexts]
        \cup [kind : {"timeout", "oserror"}, code : {-1}, stderr : {<<>>}]

Versions == {<<"l", "a", "t", "e", "s", "t">>, <<"L", "a", "t", "e", "s", "t">>, <<"1", ".", "2">>}

InstallCalls ==
    [fn : {"install_app_winget_version"}, package : {"Git.Git"}, version : Versions]
        \cup [fn : {"install_app_winget"}, package : {"Git.Git"}, version : {<<>>}]
        \cup [fn : {"install_npm_tool"}, package : {"opencode-ai"}, version : {<<>>}]

\* installer.py:120-130, 180-187 and ai_tools.py:107: the command.
install_args(call) ==
    IF call.fn = "install_npm_tool"
    THEN <<"npm", "install", "-g", call.package>>
    ELSE <<"winget", "install", "--id", call.package>>
             \o (IF call.fn = "install_app_winget_version" /\ Lower(call.version) # <<"l", "a", "t", "e", "s", "t">>
                 THEN <<"--version", call.version>> ELSE <<>>)
             \o <<"--accept-package-agreements", "--accept-source-agreements", "--silent",
                  "--ignore-warnings">>

\* A plausible slip: stderr compared without lower().
winget_install_result_case_sensitive(res) ==
    IF res.kind = "exit"
    THEN IF res.code = 0 THEN "True"
         ELSE IF IsSubstr(<<"a", "l", "r", "e", "a", "d", "y", " ", "i", "n", "s", "t", "a", "l", "l", "e", "d">>, res.stderr)
                   \/ IsSubstr(<<"a", "l", "r", "e", "a", "d", "y", " ", "e", "x", "i", "s", "t", "s">>, res.stderr)
              THEN "True"
              ELSE "False"
    ELSE "False"

\* installer.py:141-159 (the same at 198-216).
winget_install_result(res) ==
    IF res.kind = "exit"
    THEN IF res.code = 0 THEN "True"
         ELSE IF IsSubstr(<<"a", "l", "r", "e", "a", "d", "y", " ", "i", "n", "s", "t", "a", "l", "l", "e", "d">>, Lower(res.stderr))
                   \/ IsSubstr(<<"a", "l", "r", "e", "a", "d", "y", " ", "e", "x", "i", "s", "t", "s">>, Lower(res.stderr))
              THEN "True"
              ELSE "False"
    ELSE "False"

\* ai_tools.py:118-136.
npm_install_result(res) ==
    IF res.kind = "exit"
    THEN IF res.code = 0 THEN "True"
         ELSE IF IsSubstr(<<"a", "l", "r", "e", "a", "d", "y", " ", "i", "n", "s", "t", "a", "l", "l", "e", "d">>, Lower(res.stderr))
                   \/ IsSubstr(<<"u", "p", " ", "t", "o", " ", "d", "a", "t", "e">>, Lower(res.stderr))
              THEN "True"
              ELSE "False"
    ELSE "False"

InstallInit ==
    /\ LoopIdle
    /\ StartupIdle
    /\ OptionsIdle
    /\ CustomIdle
    /\ CreateIdle
    /\ RunIdle
    /\ DebloatIdle
    /\ ChoiceIdle
    /\ ElevateIdle
    /\ AttemptIdle
    /\ WaitIdle
    /\ ProbeIdle
    /\ FlowIdle
    /\ ConfirmIdle
    /\ MenuIdle
    /\ PowerIdle
    /\ ScriptIdle
    /\ RunnerIdle
    /\ InstallIdle

\* One of the install functions is called: the command is built and
\* subprocess.run is entered.
InCall ==
    /\ in_pc \in {"idle", "returned"}
    /\ \E call \in InstallCalls :
         /\ in_call' = call
         /\ in_args' = install_args(call)
    /\ in_pc' = "running"
    /\ in_spawned' = 1
    /\ in_outcome' = NoInstallResult
    /\ in_ret' = "none"
    /\ UNCHANGED notInstall

\* subprocess.run returns or raises, and the install function returns.
InProcessEnds ==
    /\ in_pc = "running"
    /\ \E res \in InstallOutcomes :
         /\ in_outcome' = res
         /\ in_ret' = IF in_call.fn = "install_npm_tool"
                      THEN npm_install_result(res)
                      ELSE winget_install_result(res)
    /\ in_pc' = "returned"
    /\ UNCHANGED <<in_call, in_args, in_spawned>>
    /\ UNCHANGED notInstall

InstallNext == InCall \/ InProcessEnds

SpecInstall == InstallInit /\ [][InstallNext]_vars

(***************************************************************************)
(* PowerManagement (power.py).  powercfg output is a character sequence,   *)
(* put together from up to MaxOutputChunks pieces: well-formed GUIDs in    *)
(* braces, braces around 36 dashes or 36 hex digits, around 35 characters, *)
(* around a non-hex letter, a lone brace and plain text.                   *)
(***************************************************************************)
GuidLen == 36

HexDigits ==
    {"0", "1", "2", "3", "4", "5", "6", "7", "8", "9",
     "a", "b", "c", "d", "e", "f", "A", "B", "C", "D", "E", "F"}

\* settings.py:60
ULTIMATE_PERFORMANCE_GUID == <<"e", "9", "a", "4", "2", "b", "0", "2", "-", "d", "5", "d", "f", "-", "4", "4", "8", "d", "-", "a", "a", "0", "0", "-", "0", "3", "f", "1", "4", "7", "4", "9", "e", "b", "6", "1">>

OutputChunks ==
    {<<"{">> \o ULTIMATE_PERFORMANCE_GUID \o <<"}">>,
     <<"{", "3", "8", "1", "B", "4", "2", "2", "2", "-", "F", "6", "9", "4", "-", "4", "1", "F", "0", "-", "9", "6", "8", "5", "-", "F", "F", "5", "B", "B", "2", "6", "0", "D", "F", "2", "E", "}">>,
     <<"{", "-", "-", "-", "-", "-", "-", "-", "-", "-", "-", "-", "-", "-", "-", "-", "-", "-", "-", "-", "-", "-", "-", "-", "-", "-", "-", "-", "-", "-", "-", "-", "-", "-", "-", "-", "-", "}">>,
     <<"{", "e", "9", "a", "4", "2", "b", "0", "2", "d", "5", "d", "f", "4", "4", "8", "d", "a", "a", "0", "0", "0", "3", "f", "1", "4", "7", "4", "9", "e", "b", "6", "1", "0", "0", "0", "0", "}">>,
     <<"{", "e", "9", "a", "4", "2", "b", "0", "2", "-", "d", "5", "d", "f", "-", "4", "4", "8", "d", "-", "a", "a", "0", "0", "-", "0", "3", "f", "1", "4", "7", "4", "9", "e", "b", "6", "}">>,
     <<"{", "e", "9", "a", "4", "2", "b", "0", "2", "-", "d", "5", "d", "f", "-", "4", "4", "8", "d", "-", "a", "a", "0", "0", "-", "0", "3", "f", "1", "4", "7", "4", "9", "e", "g", "6", "1", "}">>,
     <<"G", "U", "I", "D", ":", " ">>,
     <<"{">>}

PowerOutputs == {Concat(cs) : cs \in SeqsUpTo(OutputChunks, MaxOutputChunks)}

\* The regular expression \{[0-9a-fA-F-]{36}\} matches at position i.
guid_pattern_at(output, i) ==
    /\ i + GuidLen + 1 <= Len(output)
    /\ output[i] = "{"
    /\ \A k \in 1..GuidLen : output[i + k] \in HexDigits \cup {"-"}
    /\ output[i + GuidLen + 1] = "}"

\* What the documented pattern {8-4-4-4-12 hex} would match at position i.
guid_pattern_strict_at(output, i) ==
    /\ i + GuidLen + 1 <= Len(output)
    /\ output[i] = "{"
    /\ \A k \in 1..GuidLen :
         IF k \in {9, 14, 19, 24} THEN output[i + k] = "-" ELSE output[i + k] \in HexDigits
    /\ output[i + GuidLen + 1] = "}"

\* power.py:93-98: re.search returns the leftmost match, or None (<<>>).
extract_guid_from_output(output) ==
    LET starts == {i \in 1..Len(output) : guid_pattern_at(output, i)}
    IN  IF starts = {} THEN <<>>
        ELSE LET first == CHOOSE i \in starts : \A j \in starts : i <= j
             IN  SubSeq(output, first, first + GuidLen + 1)

\* What powercfg answers: exit 0 with some text, exit 1, or no answer in time.
PowerOutcomes ==
    [kind : {"exit"}, code : {0}, stdout : PowerOutputs, stderr : {<<>>}]
        \cup [kind : {"exit"}, code : {1}, stdout : {<<>>}, stderr : {<<"e", "r", "r">>}]
        \cup [kind : {"timeout"}, code : {-1}, stdout : {<<>>}, stderr : {<<>>}]

\* The same for a command whose output the action does not parse.
PlainOutcomes ==
    [kind : {"exit"}, code : {0, 1}, stdout : {<<>>}, stderr : {<<>>}]
        \cup [kind : {"timeout"}, code : {-1}, stdout : {<<>>}, stderr : {<<>>}]

PlanNames == {<<>>, <<" ">>, <<"m", "y">>}

Cmd(op, arg) == [op |-> op, arg |-> arg]

PowerInit ==
    /\ LoopIdle
    /\ StartupIdle
    /\ OptionsIdle
    /\ CustomIdle
    /\ CreateIdle
    /\ RunIdle
    /\ DebloatIdle
    /\ ChoiceIdle
    /\ ElevateIdle
    /\ AttemptIdle
    /\ WaitIdle
    /\ ProbeIdle
    /\ FlowIdle
    /\ ConfirmIdle
    /\ MenuIdle
    /\ ScriptIdle
    /\ RunnerIdle
    /\ InstallIdle
    /\ pw_pc = "menu"
    /\ pw_output = <<>>
    /\ pw_guid = <<>>
    /\ pw_base = <<>>
    /\ pw_name = <<>>
    /\ pw_cmds = <<>>
    /\ pw_printed = <<>>
    /\ pw_action = "none"
    /\ pw_active = "none"
    /\ pw_answer = "none"

\* Leaving an action: pause_execution, then back in the loop of show_power_menu.
ToMenu(msgs) ==
    /\ pw_pc' = "menu"
    /\ pw_printed' = pw_printed \o msgs

\* power.py:33-49: a choice is read in the power menu and dispatched.
PwChoose ==
    /\ pw_pc = "menu"
    /\ \E choice \in {"1", "2", "3", "4", "5", "9"} :
         /\ pw_pc' = CASE choice = "1" -> "u_confirm"
                       [] choice = "2" -> "list"
                       [] choice = "3" -> "show"
                       [] choice = "4" -> "s_list"
                       [] choice = "5" -> "c_name"
                       [] OTHER -> "menu"
         /\ pw_cmds' = CASE choice \in {"2", "4"} -> <<Cmd("powercfg -list", <<>>)>>
                         [] choice = "3" -> <<Cmd("powercfg /getactivescheme", <<>>)>>
                         [] OTHER -> <<>>
         /\ pw_printed' = IF choice = "9" THEN <<"Invalid option">> ELSE <<>>
         /\ pw_action' = CASE choice = "1" -> "unlock"
                           [] choice = "2" -> "list"
                           [] choice = "3" -> "show"
                           [] choice = "4" -> "switch"
                           [] choice = "5" -> "custom"
                           [] OTHER -> "none"
    /\ pw_output' = <<>>
    /\ pw_guid' = <<>>
    /\ pw_base' = <<>>
    /\ pw_name' = <<>>
    /\ pw_active' = "none"
    /\ pw_answer' = "none"
    /\ UNCHANGED notPower

\* power.py:106-134: list_power_plans / show_active_plan print the output.
PwListed ==
    /\ pw_pc \in {"list", "show"}
    /\ \E res \in PlainOutcomes :
         ToMenu(IF run_command_result(res).success = "True"
                THEN <<"output">>
                ELSE IF pw_pc = "list" THEN <<"Failed to list power plans">>
                     ELSE <<"Failed to get active power plan">>)
    /\ UNCHANGED <<pw_output, pw_guid, pw_base, pw_name, pw_cmds>>
    /\ UNCHANGED <<pw_action, pw_active>>
    /\ UNCHANGED pw_answer
    /\ UNCHANGED notPower

\* power.py:56-64: the first confirmation of unlock_ultimate_performance.
UnlockAnswer ==
    /\ pw_pc = "u_confirm"
    /\ \E raw \in AnswerLines :
         LET r == get_confirmation(raw)
         IN  /\ pw_answer' = r
             /\ CASE r = "reprompt" -> UNCHANGED <<pw_pc, pw_printed, pw_cmds>>
               [] r = "no" ->
                    /\ pw_pc' = "menu"
                    /\ pw_printed' = pw_printed \o <<"Operation cancelled">>
                    /\ UNCHANGED pw_cmds
               [] r = "yes" ->
                    /\ pw_pc' = "u_duplicate"
                    /\ pw_cmds' = Append(pw_cmds,
                           Cmd("powercfg -duplicatescheme", ULTIMATE_PERFORMANCE_GUID))
                    /\ UNCHANGED pw_printed
    /\ UNCHANGED <<pw_output, pw_guid, pw_base, pw_name>>
    /\ UNCHANGED <<pw_action, pw_active>>
    /\ UNCHANGED notPower

\* A plausible slip: the duplicate's success alone opens the next step.
unlock_gate_ignoring_guid(success, guid) ==
    IF success = "True" THEN "activate" ELSE "failed"

\* power.py:66-70, 86-89: what follows the duplicate command.
unlock_gate(success, guid) ==
    IF success = "True"
    THEN IF guid # <<>> THEN "activate" ELSE "no_guid"
    ELSE "failed"

\* power.py:64-89: the duplicate command ends; the GUID is extracted.
UnlockDuplicated ==
    /\ pw_pc = "u_duplicate"
    /\ \E res \in PowerOutcomes :
         LET ret == run_command_result(res)
             guid == extract_guid_from_output(ret.output)
             gate == unlock_gate(ret.success, guid)
         IN  CASE gate = "activate" ->
                    /\ pw_output' = ret.output
                    /\ pw_guid' = guid
                    /\ pw_pc' = "u_activate_confirm"
                    /\ pw_printed' = pw_printed \o <<"Power plan created with GUID">>
               [] gate = "no_guid" ->
                    /\ pw_output' = ret.output
                    /\ pw_guid' = guid
                    /\ ToMenu(<<"Could not extract GUID from output">>)
               [] OTHER ->
                    /\ ToMenu(<<"Failed to duplicate power scheme">>)
                    /\ UNCHANGED <<pw_output, pw_guid>>
    /\ UNCHANGED <<pw_base, pw_name, pw_cmds>>
    /\ UNCHANGED <<pw_action, pw_active>>
    /\ UNCHANGED pw_answer
    /\ UNCHANGED notPower

\* power.py:74-80: "Activate the Ultimate Performance plan now?"
UnlockActivateAnswer ==
    /\ pw_pc = "u_activate_confirm"
    /\ \E raw \in AnswerLines :
         LET r == get_confirmation(raw)
         IN  /\ pw_answer' = r
             /\ CASE r = "reprompt" -> UNCHANGED <<pw_pc, pw_cmds, pw_printed>>
               [] r = "yes" ->
                    /\ pw_pc' = "u_setactive"
                    /\ pw_cmds' = Append(pw_cmds, Cmd("powercfg -setactive", pw_guid))
                    /\ UNCHANGED pw_printed
               [] r = "no" ->
                    /\ pw_pc' = "u_getactive"
                    /\ pw_cmds' = Append(pw_cmds, Cmd("powercfg /getactivescheme", <<>>))
                    /\ pw_printed' = pw_printed \o <<"Current active power scheme:">>
    /\ UNCHANGED <<pw_output, pw_guid, pw_base, pw_name>>
    /\ UNCHANGED <<pw_action, pw_active>>
    /\ UNCHANGED notPower

\* power.py:75-80, 100-104: activate_power_plan returns.
UnlockActivated ==
    /\ pw_pc = "u_setactive"
    /\ \E res \in PlainOutcomes :
         /\ pw_active' = run_command_result(res).success
         /\ pw_printed' = pw_printed
                \o (IF run_command_result(res).success = "True"
                    THEN <<"Ultimate Performance plan activated!">> ELSE <<>>)
                \o <<"Current active power scheme:">>
    /\ pw_pc' = "u_getactive"
    /\ pw_cmds' = Append(pw_cmds, Cmd("powercfg /getactivescheme", <<>>))
    /\ UNCHANGED <<pw_output, pw_guid, pw_base, pw_name>>
    /\ UNCHANGED pw_action
    /\ UNCHANGED pw_answer
    /\ UNCHANGED notPower

\* power.py:80, 121-134: show_active_plan inside the unlock action.
UnlockShown ==
    /\ pw_pc = "u_getactive"
    /\ \E res \in PlainOutcomes :
         pw_printed' = pw_printed
             \o (IF run_command_result(res).success = "True"
                 THEN <<"output">> ELSE <<"Failed to get active power plan">>)
    /\ pw_pc' = "u_open_confirm"
    /\ UNCHANGED <<pw_output, pw_guid, pw_base, pw_name, pw_cmds>>
    /\ UNCHANGED <<pw_action, pw_active>>
    /\ UNCHANGED pw_answer
    /\ UNCHANGED notPower

\* power.py:83-91, 229-237: "Open Power Options?" and open_power_options.
UnlockOpenAnswer ==
    /\ pw_pc = "u_open_confirm"
    /\ \E raw \in AnswerLines, popenOk \in BOOLEAN :
         LET r == get_confirmation(raw)
         IN  /\ pw_answer' = r
             /\ CASE r = "reprompt" -> UNCHANGED <<pw_pc, pw_cmds, pw_printed>>
               [] r = "yes" ->
                    /\ pw_cmds' = Append(pw_cmds, Cmd("powercfg.cpl", <<>>))
                    /\ ToMenu(IF popenOk THEN <<"Power Options opened">>
                              ELSE <<"Failed to open Power Options">>)
               [] r = "no" ->
                    /\ ToMenu(<<>>)
                    /\ UNCHANGED pw_cmds
    /\ UNCHANGED <<pw_output, pw_guid, pw_base, pw_name>>
    /\ UNCHANGED <<pw_action, pw_active>>
    /\ UNCHANGED notPower

\* power.py:181-189: the plan name is read.
CustomName ==
    /\ pw_pc = "c_name"
    /\ \E raw \in PlanNames :
         LET plan_name == Strip(raw)
         IN  IF plan_name = <<>>
             THEN /\ ToMenu(<<"No plan name provided">>)
                  /\ UNCHANGED <<pw_name, pw_cmds>>
             ELSE /\ pw_name' = plan_name
                  /\ pw_pc' = "c_getactive"
                  /\ pw_cmds' = Append(pw_cmds, Cmd("powercfg /getactivescheme", <<>>))
                  /\ UNCHANGED pw_printed
    /\ UNCHANGED <<pw_output, pw_guid, pw_base>>
    /\ UNCHANGED <<pw_action, pw_active>>
    /\ UNCHANGED pw_answer
    /\ UNCHANGED notPower

\* power.py:189-204: the active scheme is read and its GUID extracted.
CustomGotActive ==
    /\ pw_pc = "c_getactive"
    /\ \E res \in PowerOutcomes :
         LET ret == run_command_result(res)
             base_guid == extract_guid_from_output(ret.output)
         IN  IF ret.success # "True"
             THEN /\ ToMenu(<<"Failed to get active power plan">>)
                  /\ UNCHANGED <<pw_output, pw_guid, pw_base, pw_cmds>>
             ELSE /\ pw_output' = ret.output
                  /\ pw_guid' = base_guid
                  /\ pw_base' = base_guid
                  /\ IF base_guid = <<>>
                     THEN /\ ToMenu(<<"Could not extract base plan GUID">>)
                          /\ UNCHANGED pw_cmds
                     ELSE /\ pw_pc' = "c_duplicate"
                          /\ pw_cmds' = Append(pw_cmds,
                                 Cmd("powercfg -duplicatescheme", base_guid))
                          /\ UNCHANGED pw_printed
    /\ UNCHANGED pw_name
    /\ UNCHANGED <<pw_action, pw_active>>
    /\ UNCHANGED pw_answer
    /\ UNCHANGED notPower

\* power.py:204-225: the duplicate ends and the new GUID is extracted.
CustomDuplicated ==
    /\ pw_pc = "c_duplicate"
    /\ \E res \in PowerOutcomes :
         LET ret == run_command_result(res)
             new_guid == extract_guid_from_output(ret.output)
         IN  IF ret.success # "True"
             THEN /\ ToMenu(<<"Failed to create custom power plan">>)
                  /\ UNCHANGED <<pw_output, pw_guid, pw_cmds>>
             ELSE /\ pw_output' = ret.output
                  /\ pw_guid' = new_guid
                  /\ IF new_guid = <<>>
                     THEN /\ ToMenu(<<"Could not extract new plan GUID">>)
                          /\ UNCHANGED pw_cmds
                     ELSE /\ pw_pc' = "c_rename"
                          /\ pw_cmds' = Append(pw_cmds,
                                 Cmd("powercfg -changename", new_guid \o <<" ", "\"">> \o pw_name \o <<"\"">>))
                          /\ UNCHANGED pw_printed
    /\ UNCHANGED <<pw_base, pw_name>>
    /\ UNCHANGED <<pw_action, pw_active>>
    /\ UNCHANGED pw_answer
    /\ UNCHANGED notPower

\* power.py:211-221: the rename ends.
CustomRenamed ==
    /\ pw_pc = "c_rename"
    /\ \E res \in PlainOutcomes :
         IF run_command_result(res).success = "True"
         THEN /\ pw_pc' = "c_activate_confirm"
              /\ pw_printed' = pw_printed \o <<"Custom power plan created successfully!">>
         ELSE ToMenu(<<"Failed to rename the power plan">>)
    /\ UNCHANGED <<pw_output, pw_guid, pw_base, pw_name, pw_cmds>>
    /\ UNCHANGED <<pw_action, pw_active>>
    /\ UNCHANGED pw_answer
    /\ UNCHANGED notPower

\* power.py:217-218: "Activate the new custom plan?"
CustomActivateAnswer ==
    /\ pw_pc = "c_activate_confirm"
    /\ \E raw \in AnswerLines :
         LET r == get_confirmation(raw)
         IN  /\ pw_answer' = r
             /\ CASE r = "reprompt" -> UNCHANGED <<pw_pc, pw_cmds, pw_printed>>
               [] r = "yes" ->
                    /\ pw_pc' = "c_setactive"
                    /\ pw_cmds' = Append(pw_cmds, Cmd("powercfg -setactive", pw_guid))
                    /\ UNCHANGED pw_printed
               [] r = "no" ->
                    /\ ToMenu(<<>>)
                    /\ UNCHANGED pw_cmds
    /\ UNCHANGED <<pw_output, pw_guid, pw_base, pw_name>>
    /\ UNCHANGED <<pw_action, pw_active>>
    /\ UNCHANGED notPower

\* power.py:218-227: activate_power_plan returns; its result is not read.
CustomActivated ==
    /\ pw_pc = "c_setactive"
    /\ \E res \in PlainOutcomes :
         /\ pw_active' = run_command_result(res).success
         /\ ToMenu(<<"Custom plan activated!">>)
    /\ UNCHANGED <<pw_output, pw_guid, pw_base, pw_name, pw_cmds>>
    /\ UNCHANGED pw_action
    /\ UNCHANGED pw_answer
    /\ UNCHANGED notPower

\* Lines typed at "Enter the GUID of the power plan to activate:".
GuidLines ==
    {c \in OutputChunks : Len(c) > GuidLen}
        \cup {<<>>, <<" ">>, ULTIMATE_PERFORMANCE_GUID,
              <<" ", "{">> \o ULTIMATE_PERFORMANCE_GUID \o <<"}", " ">>,
              <<"{", "a", "{", "3", "6", "}">>, <<"{", "-", "{", "3", "6", "}">>,
              <<"{", "a", "}">>}

\* A plausible slip: any non-empty line passes.
switch_guid_match_any(guid) == TRUE

\* power.py:162: re.match(r'^\{[0-9a-fA-F-]{36\}$', guid).  With the brace
\* escaped, {36\} is no repetition: the pattern is a brace, one hex digit or
\* dash, and the five characters {36} up to the end of the line.
switch_guid_match(guid) ==
    /\ Len(guid) = 6
    /\ guid[1] = "{"
    /\ guid[2] \in HexDigits \cup {"-"}
    /\ SubSeq(guid, 3, 6) = <<"{", "3", "6", "}">>

\* power.py:141-151: the plans are listed first.
SwitchListed ==
    /\ pw_pc = "s_list"
    /\ \E res \in PlainOutcomes :
         IF run_command_result(res).success = "True"
         THEN /\ pw_pc' = "s_guid"
              /\ pw_printed' = pw_printed \o <<"Available Power Plans:">>
         ELSE ToMenu(<<"Failed to list power plans">>)
    /\ UNCHANGED <<pw_output, pw_guid, pw_base, pw_name, pw_cmds, pw_action, pw_active>>
    /\ UNCHANGED pw_answer
    /\ UNCHANGED notPower

\* power.py:153-165: the GUID is read and validated.
SwitchGuid ==
    /\ pw_pc = "s_guid"
    /\ \E raw \in GuidLines :
         LET guid == Strip(raw)
         IN  /\ pw_guid' = guid
             /\ CASE guid = <<>> -> ToMenu(<<"No GUID provided">>)
                  [] guid # <<>> /\ ~switch_guid_match(guid) -> ToMenu(<<"Invalid GUID format">>)
                  [] OTHER -> pw_pc' = "s_confirm" /\ UNCHANGED pw_printed
    /\ UNCHANGED <<pw_output, pw_base, pw_name, pw_cmds, pw_action, pw_active>>
    /\ UNCHANGED pw_answer
    /\ UNCHANGED notPower

\* power.py:167-168, 174: "Activate power plan <guid>?"
SwitchAnswer ==
    /\ pw_pc = "s_confirm"
    /\ \E raw \in AnswerLines :
         LET r == get_confirmation(raw)
         IN  /\ pw_answer' = r
             /\ CASE r = "reprompt" -> UNCHANGED <<pw_pc, pw_cmds, pw_printed>>
               [] r = "yes" ->
                    /\ pw_pc' = "s_setactive"
                    /\ pw_cmds' = Append(pw_cmds, Cmd("powercfg -setactive", pw_guid))
                    /\ UNCHANGED pw_printed
               [] r = "no" ->
                    /\ ToMenu(<<>>)
                    /\ UNCHANGED pw_cmds
    /\ UNCHANGED <<pw_output, pw_guid, pw_base, pw_name, pw_action, pw_active>>
    /\ UNCHANGED notPower

\* power.py:168-174: activate_power_plan returns.
SwitchActivated ==
    /\ pw_pc = "s_setactive"
    /\ \E res \in PlainOutcomes :
         /\ pw_active' = run_command_result(res).success
         /\ IF run_command_result(res).success = "True"
            THEN /\ pw_pc' = "s_show"
                 /\ pw_printed' = pw_printed \o <<"Power plan activated successfully!">>
                 /\ pw_cmds' = Append(pw_cmds, Cmd("powercfg /getactivescheme", <<>>))
            ELSE /\ ToMenu(<<"Failed to activate power plan">>)
                 /\ UNCHANGED pw_cmds
    /\ UNCHANGED <<pw_output, pw_guid, pw_base, pw_name, pw_action>>
    /\ UNCHANGED pw_answer
    /\ UNCHANGED notPower

\* power.py:170, 121-134, 174: show_active_plan inside switch_power_plan.
SwitchShown ==
    /\ pw_pc = "s_show"
    /\ \E res \in PlainOutcomes :
         ToMenu(IF run_command_result(res).success = "True"
                THEN <<"output">> ELSE <<"Failed to get active power plan">>)
    /\ UNCHANGED <<pw_output, pw_guid, pw_base, pw_name, pw_cmds, pw_action, pw_active>>
    /\ UNCHANGED pw_answer
    /\ UNCHANGED notPower

PowerNext ==
    \/ PwChoose
    \/ PwListed
    \/ UnlockAnswer
    \/ UnlockDuplicated
    \/ UnlockActivateAnswer
    \/ UnlockActivated
    \/ UnlockShown
    \/ UnlockOpenAnswer
    \/ CustomName
    \/ CustomGotActive
    \/ CustomDuplicated
    \/ CustomRenamed
    \/ CustomActivateAnswer
    \/ CustomActivated
    \/ SwitchListed
    \/ SwitchGuid
    \/ SwitchAnswer
    \/ SwitchActivated
    \/ SwitchShown

SpecPower == PowerInit /\ [][PowerNext]_vars

(***************************************************************************)
(* SystemUtils.print_menu (system.py:322-345).  The options mapping is a   *)
(* sequence of entries with distinct keys, in insertion order; an entry    *)
(* may lack its 'title'.                                                   *)
(***************************************************************************)
MIN_MENU_WIDTH == 40

Rep(c, n) == [i \in 1..n |-> c]

MenuKeys == {"0", "1", "2", "a"}

\* Option titles: none, short, and of the lengths around the minimum width.
OptionTitles == {Rep("t", n) : n \in {0, 4, MIN_MENU_WIDTH - 4, MIN_MENU_WIDTH - 3}}

MenuTitles == {<<"M", "A", "I", "N", " ", "M", "E", "N", "U">>, Rep("T", MIN_MENU_WIDTH + 2)}

\* The entries, an absent title being written as the empty one.
MenuEntries ==
    [key : MenuKeys, has_title : {TRUE}, title : OptionTitles]
        \cup [key : MenuKeys, has_title : {FALSE}, title : {<<>>}]

\* The mappings: sequences of entries whose keys differ.
OptionMaps ==
    {os \in SeqsUpTo(MenuEntries, MaxOptions) :
        \A i, j \in 1..Len(os) : i # j => os[i].key # os[j].key}

left_padding == Rep(" ", 5)

\* system.py:327, 342: f"[{key}] {option.get('title', 'Unknown')}"
option_text(option) ==
    <<"[", option.key, "]", " ">>
        \o (IF option.has_title THEN option.title ELSE <<"U", "n", "k", "n", "o", "w", "n">>)

Max2(a, b) == IF a >= b THEN a ELSE b

\* system.py:325-328: the running maximum over the options.
RECURSIVE longest_option(_, _)
longest_option(sofar, options) ==
    IF options = <<>> THEN sofar
    ELSE longest_option(Max2(sofar, Len(option_text(Head(options)))), Tail(options))

\* system.py:325-331
max_option_length(title, options) ==
    Max2(longest_option(Len(title), options), MIN_MENU_WIDTH)

\* A plausible slip: the options printed from the last to the first.
menu_lines_reversed(title, options) ==
    <<left_padding \o title, left_padding \o Rep("-", Len(title))>>
        \o [i \in 1..Len(options) |->
                left_padding \o option_text(options[Len(options) + 1 - i])]
        \o << <<>> >>

\* system.py:337-345: the lines printed.
menu_lines(title, options) ==
    <<left_padding \o title, left_padding \o Rep("-", Len(title))>>
        \o [i \in 1..Len(options) |-> left_padding \o option_text(options[i])]
        \o << <<>> >>

MenuInit ==
    /\ LoopIdle
    /\ StartupIdle
    /\ OptionsIdle
    /\ CustomIdle
    /\ CreateIdle
    /\ RunIdle
    /\ DebloatIdle
    /\ ChoiceIdle
    /\ ElevateIdle
    /\ AttemptIdle
    /\ WaitIdle
    /\ ProbeIdle
    /\ FlowIdle
    /\ ConfirmIdle
    /\ ScriptIdle
    /\ RunnerIdle
    /\ InstallIdle
    /\ PowerIdle
    /\ MenuIdle

\* A caller builds a mapping and calls print_menu.
MnCall ==
    /\ mn_pc = "idle"
    /\ \E title \in MenuTitles, options \in OptionMaps :
         /\ mn_title' = title
         /\ mn_options' = options
    /\ mn_pc' = "called"
    /\ mn_width' = 0
    /\ mn_printed' = <<>>
    /\ UNCHANGED notMenu

\* print_menu runs to its end.
MnPrint ==
    /\ mn_pc = "called"
    /\ mn_width' = max_option_length(mn_title, mn_options)
    /\ mn_printed' = menu_lines(mn_title, mn_options)
    /\ mn_pc' = "printed"
    /\ UNCHANGED <<mn_title, mn_options>>
    /\ UNCHANGED notMenu

\* The caller goes on; the next render builds its mapping afresh.
MnReturn ==
    /\ mn_pc = "printed"
    /\ mn_pc' = "idle"
    /\ mn_title' = <<>>
    /\ mn_options' = <<>>
    /\ mn_width' = 0
    /\ mn_printed' = <<>>
    /\ UNCHANGED notMenu

MenuNext == MnCall \/ MnPrint \/ MnReturn

SpecMenu == MenuInit /\ [][MenuNext]_vars

(***************************************************************************)
(* The program: WindowsAutomationToolkit.main_menu (main.py:52-81) and the *)
(* menu loops of the feature modules.  A position is a place where the     *)
(* program is blocked: in input() or waiting for a child process.          *)
(***************************************************************************)
\* The executables the modules probe for or run.
ToolNames == {"winget", "node", "npm", "AutoHotkey64.exe", "powercfg", "bash"}

\* Keys typed at the main menu.
MainChoices == {"0", "1", "2", "3", "4", "5", "6", "9"}

\* Lines typed at the main menu: a key alone, with blanks around, and
\* lines that are no key.
MainLines ==
    {<<c>> : c \in MainChoices}
        \cup {<<" ", c>> : c \in MainChoices}
        \cup {<<c, " ">> : c \in MainChoices}
        \cup {<<>>, <<" ">>, <<"1", "0">>, <<"0", "1">>, <<"1", " ", "2">>, <<"q">>, <<"a">>}

\* A plausible slip: the line compared as typed, without strip().
main_dispatch_unstripped(raw) ==
    CASE raw = <<"1">> -> "debloat"
      [] raw = <<"2">> -> "settings"
      [] raw = <<"3">> -> "power"
      [] raw = <<"4">> -> "installer"
      [] raw = <<"5">> -> "ai_tools"
      [] raw = <<"6">> -> "autohotkey"
      [] raw = <<"0">> -> "exit"
      [] OTHER -> "invalid"

\* main.py:62-81: the branch taken for the line read.
main_dispatch(raw) ==
    LET choice == Strip(raw)
    IN  CASE choice = <<"1">> -> "debloat"
          [] choice = <<"2">> -> "settings"
          [] choice = <<"3">> -> "power"
          [] choice = <<"4">> -> "installer"
          [] choice = <<"5">> -> "ai_tools"
          [] choice = <<"6">> -> "autohotkey"
          [] choice = <<"0">> -> "exit"
          [] OTHER -> "invalid"

\* How a child process ends: exit code zero or not, or subprocess.run raises.
ChildEnds == {"exit0", "exit1", "timeout", "oserror"}

\* installer.py:120-130
winget_install(id) == <<"winget", "install", "--id", id>>

\* ai_tools.py:107
npm_install(package) == <<"npm", "install", "-g", package>>

\* ai_tools.py:31-35
NODEJS_INSTALL == <<"winget", "install", "OpenJS.NodeJS">>

\* ai_tools.py:232
IFLOW_INSTALL == <<"curl -fsSL https://cloud.iflow.cn/iflow-cli/install.sh | bash">>

\* power.py:110
POWERCFG_LIST == <<"powercfg", "-list">>

\* installer.py:49-51
check_winget_available_skipped(env) == TRUE

check_winget_available(env) == "winget" \in env

\* ai_tools.py:72-76
check_node_npm_available(env) == "node" \in env /\ "npm" \in env

\* autohotkey.py:57-68
check_autohotkey_installed(env) == "AutoHotkey64.exe" \in env

\* The executables a package brings with it once its install has succeeded;
\* check_program_exists probes the common install paths on every call.
installs(command) ==
    LET package == command[Len(command)]
    IN  IF package = "OpenJS.NodeJS" THEN {"node", "npm"}
        ELSE IF package = "AutoHotkey.AutoHotkey" THEN {"AutoHotkey64.exe"}
        ELSE IF package = "Git.Git" THEN {"bash"}
        ELSE {}

\* What the probes can reach after `command` has ended with `end`.
EnvAfter(command, end) ==
    IF end = "exit0" THEN {fl_env, fl_env \cup installs(command)} ELSE {fl_env}

\* The message an install prints for each way its child ends.
InstallMsg(end) ==
    CASE end = "exit0" -> "installed"
      [] end = "exit1" -> "failed_or_already_installed"
      [] end = "timeout" -> "timed_out"
      [] OTHER -> "error"

Goto(pc, menu, spawned, msg) ==
    /\ fl_pc' = pc
    /\ fl_menu' = menu
    /\ fl_spawned' = spawned
    /\ fl_msgs' = msg

FlowInit ==
    /\ LoopIdle
    /\ StartupIdle
    /\ OptionsIdle
    /\ CustomIdle
    /\ CreateIdle
    /\ RunIdle
    /\ DebloatIdle
    /\ ChoiceIdle
    /\ ElevateIdle
    /\ AttemptIdle
    /\ WaitIdle
    /\ ProbeIdle
    /\ ConfirmIdle
    /\ ScriptIdle
    /\ RunnerIdle
    /\ InstallIdle
    /\ PowerIdle
    /\ MenuIdle
    /\ fl_pc = "main"
    /\ fl_env \in SUBSET ToolNames
    /\ apps = ESSENTIAL_APPS
    /\ tools = AI_TOOLS
    /\ fl_idx = 0
    /\ fl_menu = "main"
    /\ fl_spawned = <<>>
    /\ fl_response = <<>>
    /\ fl_msgs = "none"

\* main.py:62-81: one line read at the main menu.  The power and AutoHotkey
\* modules print their menu at once (power.py:20-33, autohotkey.py:23-37),
\* as do debloat and settings; the installer and the AI tools module probe
\* for their tool first.
MainChoose ==
    /\ fl_pc = "main"
    /\ \E raw \in MainLines :
         /\ fl_response' = raw
         /\ CASE main_dispatch(raw) = "debloat" -> Goto("debloat_menu", "debloat", <<>>, "none")
              [] main_dispatch(raw) = "settings" -> Goto("settings_menu", "settings", <<>>, "none")
              [] main_dispatch(raw) = "power" -> Goto("power_menu", "power", <<>>, "none")
              [] main_dispatch(raw) = "installer" -> Goto("installer_check", fl_menu, <<>>, "none")
              [] main_dispatch(raw) = "ai_tools" -> Goto("ai_tools_check", fl_menu, <<>>, "none")
              [] main_dispatch(raw) = "autohotkey" -> Goto("autohotkey_menu", "autohotkey", <<>>, "none")
              [] main_dispatch(raw) = "exit" -> Goto("exited", fl_menu, <<>>, "goodbye")
              [] OTHER -> Goto("main", "main", <<>>, "invalid_option")
    /\ UNCHANGED <<fl_env, apps, tools, fl_idx>>
    /\ UNCHANGED notFlow

\* debloat.py:44-47: back to the main menu.
DebloatBack ==
    /\ fl_pc = "debloat_menu"
    /\ fl_response' = <<"0">>
    /\ Goto("main", "main", <<>>, "none")
    /\ UNCHANGED <<fl_env, apps, tools, fl_idx>>
    /\ UNCHANGED notFlow

\* The settings module's menu: back to the main menu.
SettingsBack ==
    /\ fl_pc = "settings_menu"
    /\ fl_response' = <<"0">>
    /\ Goto("main", "main", <<>>, "none")
    /\ UNCHANGED <<fl_env, apps, tools, fl_idx>>
    /\ UNCHANGED notFlow

\* installer.py:20-38: the head of show_installer_menu's loop.
InstallerCheck ==
    /\ fl_pc = "installer_check"
    /\ IF check_winget_available(fl_env)
       THEN Goto("installer_menu", "installer", fl_spawned, "none")
       ELSE Goto("main", "main", fl_spawned, "winget_not_available")
    /\ UNCHANGED <<fl_env, apps, tools, fl_idx, fl_response>>
    /\ UNCHANGED notFlow

\* installer.py:40-47: the choice; the per-app options menu is left out.
InstallerChoose ==
    /\ fl_pc = "installer_menu"
    /\ \E choice \in {"0", "a"} :
         /\ fl_response' = <<choice>>
         /\ IF choice = "0"
            THEN Goto("main", "main", <<>>, "none")
            ELSE Goto("install_all_apps_confirm", fl_menu, <<>>, "none")
    /\ UNCHANGED <<fl_env, apps, tools, fl_idx>>
    /\ UNCHANGED notFlow

\* installer.py:167-169: the call install_all_apps makes for one app.
install_all_apps_call(app) ==
    [fn |-> "install_app_winget_version", package |-> app.id, name |-> app.name,
     version |-> "latest"]

\* ai_tools.py:94-95: the call install_all_tools makes for one tool.
install_all_tools_call(tool) ==
    [fn |-> "install_npm_tool", package |-> tool.package, name |-> tool.name, version |-> ""]

\* A plausible slip: the loop left at the first install that does not succeed.
loop_step_stopping_on_failure(end, idx, n) ==
    IF end = "exit0" /\ idx < n THEN "next" ELSE "done"

\* installer.py:167-170 and ai_tools.py:94-98: the for loop goes on to the
\* next element whatever the call returned (both install functions catch
\* every exception and return False).
loop_step(end, idx, n) == IF idx < n THEN "next" ELSE "done"

\* installer.py:161-169: the confirmation of install_all_apps and, on yes,
\* the first install.
InstallAllAppsAnswer ==
    /\ fl_pc = "install_all_apps_confirm"
    /\ \E raw \in AnswerLines :
         /\ fl_response' = raw
         /\ CASE get_confirmation(raw) = "reprompt" ->
                   /\ Goto(fl_pc, fl_menu, fl_spawned, "please_enter_y_or_n")
                   /\ UNCHANGED <<fl_idx, fl_calls>>
              [] get_confirmation(raw) = "no" ->
                   /\ Goto("installer_check", fl_menu, fl_spawned, "operation_cancelled")
                   /\ UNCHANGED <<fl_idx, fl_calls>>
              [] OTHER ->
                   IF apps = <<>>
                   THEN /\ Goto("installer_check", fl_menu, fl_spawned, "none")
                        /\ fl_calls' = <<>>
                        /\ UNCHANGED fl_idx
                   ELSE /\ Goto("install_all_apps_running", fl_menu,
                                Append(fl_spawned, winget_install(apps[1].id)), "installing")
                        /\ fl_idx' = 1
                        /\ fl_calls' = <<install_all_apps_call(apps[1])>>
    /\ UNCHANGED <<fl_env, apps, tools>>
    /\ UNCHANGED notFlowLoop

\* installer.py:167-170 with 111-159: an install ends, the next one starts.
InstallAllAppsEnds ==
    /\ fl_pc = "install_all_apps_running"
    /\ \E end \in ChildEnds :
         /\ fl_env' \in EnvAfter(fl_spawned[Len(fl_spawned)], end)
         /\ IF loop_step(end, fl_idx, Len(apps)) = "next"
            THEN /\ Goto(fl_pc, fl_menu,
                         Append(fl_spawned, winget_install(apps[fl_idx + 1].id)), InstallMsg(end))
                 /\ fl_idx' = fl_idx + 1
                 /\ fl_calls' = Append(fl_calls, install_all_apps_call(apps[fl_idx + 1]))
            ELSE /\ Goto("installer_check", fl_menu, fl_spawned, InstallMsg(end))
                 /\ fl_idx' = 0
                 /\ UNCHANGED fl_calls
    /\ UNCHANGED <<apps, tools, fl_response>>
    /\ UNCHANGED notFlowLoop

\* ai_tools.py:19-59: the head of show_ai_tools_menu's loop.
AiToolsCheck ==
    /\ fl_pc = "ai_tools_check"
    /\ IF check_node_npm_available(fl_env)
       THEN Goto("ai_tools_menu", "ai_tools", fl_spawned, "none")
       ELSE Goto("node_prompt", fl_menu, fl_spawned, "node_npm_not_available")
    /\ UNCHANGED <<fl_env, apps, tools, fl_idx, fl_response>>
    /\ UNCHANGED notFlow

\* ai_tools.py:27-49: the answer to "install Node.js and npm now? (y/n)".
AiNodeAnswer ==
    /\ fl_pc = "node_prompt"
    /\ \E raw \in AnswerLines :
         /\ fl_response' = raw
         /\ IF node_prompt(raw) = "yes"
            THEN Goto("node_install_running", fl_menu,
                      Append(fl_spawned, NODEJS_INSTALL), "installing_nodejs")
            ELSE Goto("main", "main", fl_spawned, "install_nodejs_first")
    /\ UNCHANGED <<fl_env, apps, tools, fl_idx>>
    /\ UNCHANGED notFlow

\* ai_tools.py:35-45: run_command has returned; either way back to main.
AiNodeInstallEnds ==
    /\ fl_pc = "node_install_running"
    /\ \E end \in ChildEnds :
         /\ fl_env' \in EnvAfter(NODEJS_INSTALL, end)
         /\ Goto("main", "main", fl_spawned,
                 IF end = "exit0" THEN "nodejs_installed_restart" ELSE "nodejs_install_failed")
    /\ UNCHANGED <<apps, tools, fl_idx, fl_response>>
    /\ UNCHANGED notFlow

\* ai_tools.py:61-70: the choice; the single-tool entries are left out.
AiToolsChoose ==
    /\ fl_pc = "ai_tools_menu"
    /\ \E choice \in {"0", "a"} :
         /\ fl_response' = <<choice>>
         /\ IF choice = "0"
            THEN Goto("main", "main", <<>>, "none")
            ELSE Goto("install_all_tools_confirm", fl_menu, <<>>, "none")
    /\ UNCHANGED <<fl_env, apps, tools, fl_idx>>
    /\ UNCHANGED notFlow

\* ai_tools.py:87-98: the confirmation of install_all_tools and, on yes, the
\* first npm install (with no tools, install_iflow_cli at once).
InstallAllToolsAnswer ==
    /\ fl_pc = "install_all_tools_confirm"
    /\ \E raw \in AnswerLines :
         /\ fl_response' = raw
         /\ CASE get_confirmation(raw) = "reprompt" ->
                   /\ Goto(fl_pc, fl_menu, fl_spawned, "please_enter_y_or_n")
                   /\ UNCHANGED <<fl_idx, fl_calls>>
              [] get_confirmation(raw) = "no" ->
                   /\ Goto("ai_tools_check", fl_menu, fl_spawned, "operation_cancelled")
                   /\ UNCHANGED <<fl_idx, fl_calls>>
              [] OTHER ->
                   IF tools = <<>>
                   THEN /\ Goto("iflow_confirm", fl_menu, fl_spawned, "installing_iflow")
                        /\ fl_calls' = <<>>
                        /\ UNCHANGED fl_idx
                   ELSE /\ Goto("install_all_tools_running", fl_menu,
                                Append(fl_spawned, npm_install(tools[1].package)), "installing")
                        /\ fl_idx' = 1
                        /\ fl_calls' = <<install_all_tools_call(tools[1])>>
    /\ UNCHANGED <<fl_env, apps, tools>>
    /\ UNCHANGED notFlowLoop

\* ai_tools.py:94-98 with 100-136: an npm install ends; the next one starts,
\* or install_iflow_cli asks its confirmation.
InstallAllToolsEnds ==
    /\ fl_pc = "install_all_tools_running"
    /\ \E end \in ChildEnds :
         IF loop_step(end, fl_idx, Len(tools)) = "next"
         THEN /\ Goto(fl_pc, fl_menu,
                      Append(fl_spawned, npm_install(tools[fl_idx + 1].package)), InstallMsg(end))
              /\ fl_idx' = fl_idx + 1
              /\ fl_calls' = Append(fl_calls, install_all_tools_call(tools[fl_idx + 1]))
         ELSE /\ Goto("iflow_confirm", fl_menu, fl_spawned, InstallMsg(end))
              /\ fl_idx' = 0
              /\ UNCHANGED fl_calls
    /\ UNCHANGED <<fl_env, apps, tools, fl_response>>
    /\ UNCHANGED notFlowLoop

\* ai_tools.py:211-249: install_iflow_cli up to the start of its child.
IflowAnswer ==
    /\ fl_pc = "iflow_confirm"
    /\ \E raw \in AnswerLines :
         /\ fl_response' = raw
         /\ CASE get_confirmation(raw) = "reprompt" ->
                   Goto(fl_pc, fl_menu, fl_spawned, "please_enter_y_or_n")
              [] get_confirmation(raw) = "no" ->
                   Goto("ai_tools_check", fl_menu, fl_spawned, "iflow_cancelled")
              [] OTHER ->
                   IF "bash" \in fl_env
                   THEN Goto("iflow_running", fl_menu,
                             Append(fl_spawned, IFLOW_INSTALL), "installing_iflow")
                   ELSE Goto("ai_tools_check", fl_menu, fl_spawned, "iflow_requires_bash")
    /\ UNCHANGED <<fl_env, apps, tools, fl_idx>>
    /\ UNCHANGED notFlow

\* ai_tools.py:233-245
IflowEnds ==
    /\ fl_pc = "iflow_running"
    /\ \E end \in ChildEnds :
         Goto("ai_tools_check", fl_menu, fl_spawned,
              IF end = "exit0" THEN "iflow_installed" ELSE "iflow_failed")
    /\ UNCHANGED <<fl_env, apps, tools, fl_idx, fl_response>>
    /\ UNCHANGED notFlow

\* autohotkey.py:37-55 with 70-89: the choice; "1" is install_autohotkey up
\* to its confirmation.  The script entries are left out.
AhkChoose ==
    /\ fl_pc = "autohotkey_menu"
    /\ \E choice \in {"0", "1", "9"} :
         /\ fl_response' = <<choice>>
         /\ CASE choice = "0" -> Goto("main", "main", <<>>, "none")
              [] choice = "1" ->
                   IF check_autohotkey_installed(fl_env)
                   THEN Goto(fl_pc, fl_menu, <<>>, "autohotkey_already_installed")
                   ELSE IF ~check_winget_available(fl_env)
                   THEN Goto(fl_pc, fl_menu, <<>>, "winget_not_available")
                   ELSE Goto("autohotkey_install_confirm", fl_menu, <<>>, "none")
              [] OTHER -> Goto(fl_pc, fl_menu, <<>>, "invalid_option")
    /\ UNCHANGED <<fl_env, apps, tools, fl_idx>>
    /\ UNCHANGED notFlow

\* autohotkey.py:87-107
AhkInstallAnswer ==
    /\ fl_pc = "autohotkey_install_confirm"
    /\ \E raw \in AnswerLines :
         /\ fl_response' = raw
         /\ CASE get_confirmation(raw) = "reprompt" ->
                   Goto(fl_pc, fl_menu, fl_spawned, "please_enter_y_or_n")
              [] get_confirmation(raw) = "no" ->
                   Goto("autohotkey_menu", fl_menu, fl_spawned, "installation_cancelled")
              [] OTHER ->
                   Goto("autohotkey_install_running", fl_menu,
                        Append(fl_spawned, winget_install("AutoHotkey.AutoHotkey")), "installing")
    /\ UNCHANGED <<fl_env, apps, tools, fl_idx>>
    /\ UNCHANGED notFlow

\* autohotkey.py:109-119
AhkInstallEnds ==
    /\ fl_pc = "autohotkey_install_running"
    /\ \E end \in ChildEnds :
         /\ fl_env' \in EnvAfter(fl_spawned[Len(fl_spawned)], end)
         /\ Goto("autohotkey_menu", fl_menu, fl_spawned, InstallMsg(end))
    /\ UNCHANGED <<apps, tools, fl_idx, fl_response>>
    /\ UNCHANGED notFlow

\* power.py:33-49 with 105-111: the choice; "2" is list_power_plans.  The
\* other entries are the subject of SpecPower.
PowerMenuChoose ==
    /\ fl_pc = "power_menu"
    /\ \E choice \in {"0", "2", "9"} :
         /\ fl_response' = <<choice>>
         /\ CASE choice = "0" -> Goto("main", "main", <<>>, "none")
              [] choice = "2" -> Goto("power_list_running", fl_menu, <<POWERCFG_LIST>>, "none")
              [] OTHER -> Goto(fl_pc, fl_menu, <<>>, "invalid_option")
    /\ UNCHANGED <<fl_env, apps, tools, fl_idx>>
    /\ UNCHANGED notFlow

\* power.py:111-118
PowerListEnds ==
    /\ fl_pc = "power_list_running"
    /\ \E end \in ChildEnds :
         Goto("power_menu", fl_menu, fl_spawned,
              IF end = "exit0" THEN "plans_listed" ELSE "failed_to_list_power_plans")
    /\ UNCHANGED <<fl_env, apps, tools, fl_idx, fl_response>>
    /\ UNCHANGED notFlow

FlowNext ==
    \/ MainChoose
    \/ DebloatBack
    \/ SettingsBack
    \/ InstallerCheck
    \/ InstallerChoose
    \/ InstallAllAppsAnswer
    \/ InstallAllAppsEnds
    \/ AiToolsCheck
    \/ AiNodeAnswer
    \/ AiNodeInstallEnds
    \/ AiToolsChoose
    \/ InstallAllToolsAnswer
    \/ InstallAllToolsEnds
    \/ IflowAnswer
    \/ IflowEnds
    \/ AhkChoose
    \/ AhkInstallAnswer
    \/ AhkInstallEnds
    \/ PowerMenuChoose
    \/ PowerListEnds

SpecFlow == FlowInit /\ [][FlowNext]_vars

(***************************************************************************)
(* The probes: SystemUtils.check_program_exists (system.py:211-281) and    *)
(* AutoHotKeyManager.check_autohotkey_installed (autohotkey.py:57-68),     *)
(* one '<candidate> --version' child at a time, and what becomes of an     *)
(* exception that leaves them.                                             *)
(***************************************************************************)
\* The places that call a probe.  `guarded`: the call is inside a
\* try/except Exception of the calling action (ai_tools.py:216-245).
ProbeSites ==
    {[site |-> "show_installer_menu", fn |-> "check_program_exists", name |-> "winget", guarded |-> FALSE],
     [site |-> "show_ai_tools_menu", fn |-> "check_program_exists", name |-> "node", guarded |-> FALSE],
     [site |-> "show_ai_tools_menu", fn |-> "check_program_exists", name |-> "npm", guarded |-> FALSE],
     [site |-> "install_iflow_cli", fn |-> "check_program_exists", name |-> "bash", guarded |-> TRUE],
     [site |-> "install_autohotkey", fn |-> "check_autohotkey_installed", name |-> "AutoHotkey64.exe", guarded |-> FALSE],
     [site |-> "install_autohotkey", fn |-> "check_program_exists", name |-> "winget", guarded |-> FALSE],
     [site |-> "run_script", fn |-> "check_autohotkey_installed", name |-> "AutoHotkey64.exe", guarded |-> FALSE],
     [site |-> "show_script_status", fn |-> "check_autohotkey_installed", name |-> "AutoHotkey64.exe", guarded |-> FALSE]}

\* How one candidate's probe ends: the child exits with 0 or not
\* (CalledProcessError under check=True), the executable is missing
\* (FileNotFoundError), the 10 seconds pass (TimeoutExpired), the spawn is
\* refused (PermissionError); a fallback path may not exist at all.
NameEnds == {"exit0", "nonzero", "missing", "timeout", "denied"}

PathEnds == {"no_such_path", "exit0", "nonzero", "timeout", "denied"}

ByName(exes) == [i \in 1..Len(exes) |-> [exe |-> exes[i], kind |-> "name"]]

ByPath(exes) == [i \in 1..Len(exes) |-> [exe |-> exes[i], kind |-> "path"]]

\* system.py:219-281: the candidates for a program name (the names here are
\* lower case already).
candidates(name) ==
    IF name \in {"node", "nodejs"}
    THEN ByName(<<"node", "nodejs", "node.exe", "nodejs.exe">>)
             \o ByPath(<<"C:\\Program Files\\nodejs\\node.exe",
                         "C:\\Program Files (x86)\\nodejs\\node.exe",
                         "~\\AppData\\Local\\Programs\\nodejs\\node.exe">>)
    ELSE IF name = "npm"
    THEN ByName(<<"npm", "npm.cmd", "npm.exe">>)
             \o ByPath(<<"C:\\Program Files\\nodejs\\npm.cmd",
                         "C:\\Program Files (x86)\\nodejs\\npm.cmd",
                         "~\\AppData\\Local\\Programs\\nodejs\\npm.cmd">>)
    ELSE ByName(<<name>>)

\* What the probe function does when a candidate's probe has ended:
\* "true" (return True), "next" (go on; False after the last candidate) or
\* "raise" (the exception is in none of the except clauses).
probe_step(fn, kind, end) ==
    IF end = "exit0" THEN "true"
    ELSE IF fn = "check_autohotkey_installed"
    THEN \* autohotkey.py:60-68: no check=True; FileNotFoundError, TimeoutExpired
         IF end \in {"nonzero", "missing", "timeout"} THEN "next" ELSE "raise"
    ELSE IF kind = "name"
    THEN \* system.py:226, 254, 280: CalledProcessError, FileNotFoundError, TimeoutExpired
         IF end \in {"nonzero", "missing", "timeout"} THEN "next" ELSE "raise"
    ELSE \* system.py:237-243, 265-271: os.path.exists; CalledProcessError, TimeoutExpired
         IF end \in {"no_such_path", "nonzero", "timeout"} THEN "next" ELSE "raise"

ProbeInit ==
    /\ LoopIdle
    /\ StartupIdle
    /\ OptionsIdle
    /\ CustomIdle
    /\ CreateIdle
    /\ RunIdle
    /\ DebloatIdle
    /\ ChoiceIdle
    /\ ElevateIdle
    /\ AttemptIdle
    /\ WaitIdle
    /\ ConfirmIdle
    /\ ScriptIdle
    /\ RunnerIdle
    /\ InstallIdle
    /\ PowerIdle
    /\ MenuIdle
    /\ FlowIdle
    /\ ProbeIdle

\* A module action reaches one of its probes.
PbCall ==
    /\ pb_pc \in {"idle", "returned", "caught"}
    /\ \E site \in ProbeSites :
         /\ pb_site' = site
         /\ pb_cands' = IF site.fn = "check_program_exists"
                        THEN candidates(site.name)
                        ELSE ByName(<<site.name>>)
    /\ pb_pc' = "probing"
    /\ pb_i' = 1
    /\ pb_log' = <<>>
    /\ pb_ret' = "none"
    /\ pb_exc' = "none"
    /\ UNCHANGED notProbe

\* The probe of candidate pb_i ends.
PbProbeEnds ==
    /\ pb_pc = "probing"
    /\ \E end \in (IF pb_cands[pb_i].kind = "name" THEN NameEnds ELSE PathEnds) :
         LET step == probe_step(pb_site.fn, pb_cands[pb_i].kind, end)
         IN  /\ pb_log' = Append(pb_log, end)
             /\ CASE step = "true" ->
                       pb_pc' = "returned" /\ pb_ret' = "True" /\ pb_exc' = "none" /\ pb_i' = pb_i
                  [] step = "raise" ->
                       pb_pc' = "raised" /\ pb_ret' = "none" /\ pb_exc' = end /\ pb_i' = pb_i
                  [] OTHER ->
                       IF pb_i < Len(pb_cands)
                       THEN pb_pc' = "probing" /\ pb_ret' = "none" /\ pb_exc' = "none" /\ pb_i' = pb_i + 1
                       ELSE pb_pc' = "returned" /\ pb_ret' = "False" /\ pb_exc' = "none" /\ pb_i' = pb_i
    /\ UNCHANGED <<pb_site, pb_cands>>
    /\ UNCHANGED notProbe

\* The exception travels up from the probe: the except clause of the
\* calling action takes it (ai_tools.py:243-245), or nothing does before
\* main() (main.py:128-132), which prints it and ends the program.
PbPropagate ==
    /\ pb_pc = "raised"
    /\ pb_pc' = IF pb_site.guarded THEN "caught" ELSE "escaped"
    /\ UNCHANGED <<pb_site, pb_cands, pb_i, pb_log, pb_ret, pb_exc>>
    /\ UNCHANGED notProbe

ProbeNext == PbCall \/ PbProbeEnds \/ PbPropagate

SpecProbe == ProbeInit /\ [][ProbeNext]_vars

(***************************************************************************)
(* The blocking subprocess.run calls of the program, each with the timeout *)
(* argument it passes (bounded = FALSE: none is passed).  A child may exit *)
(* or never exit; only a timeout argument makes subprocess.run raise       *)
(* TimeoutExpired.                                                         *)
(***************************************************************************)
Bounded(fn, seconds) == [fn |-> fn, bounded |-> TRUE, seconds |-> seconds]

Unbounded(fn) == [fn |-> fn, bounded |-> FALSE, seconds |-> 0]

WaitSites ==
    {\* system.py:77-92, 187-193, 223-278 and the timeout arguments of the callers
     Bounded("run_powershell_command", 300),
     Bounded("run_command", 60),
     Bounded("run_command:unlock_ultimate_performance", 30),
     Bounded("run_command:install_iflow_cli", 300),
     Bounded("check_program_exists", 10),
     \* system.py:160-164
     Unbounded("run_powershell_script"),
     \* installer.py
     Bounded("install_app_winget_version", 300),
     Bounded("install_app_winget", 300),
     Bounded("uninstall_app_winget", 300),
     Bounded("check_app_installed", 30),
     Bounded("update_app_winget", 300),
     Bounded("search_winget_apps", 60),
     \* ai_tools.py
     Bounded("install_npm_tool", 180),
     Bounded("uninstall_npm_tool", 180),
     Bounded("update_npm_tool", 180),
     Bounded("check_npm_tool_installed", 30),
     Bounded("search_npm_packages", 60),
     \* autohotkey.py
     Bounded("check_autohotkey_installed", 10),
     Bounded("install_autohotkey", 300),
     Unbounded("stop_script:tasklist"),
     Unbounded("stop_script:taskkill"),
     Unbounded("is_script_running:tasklist")}

WaitResults ==
    [kind : {"exit"}, code : 0..MaxExitCode] \cup [kind : {"timeout", "oserror"}, code : {-1}]

WaitInit ==
    /\ LoopIdle
    /\ StartupIdle
    /\ OptionsIdle
    /\ CustomIdle
    /\ CreateIdle
    /\ RunIdle
    /\ DebloatIdle
    /\ ChoiceIdle
    /\ ElevateIdle
    /\ AttemptIdle
    /\ ConfirmIdle
    /\ ScriptIdle
    /\ RunnerIdle
    /\ InstallIdle
    /\ PowerIdle
    /\ MenuIdle
    /\ FlowIdle
    /\ ProbeIdle
    /\ WaitIdle

\* An action calls subprocess.run and blocks in it.
WtCall ==
    /\ wt_pc \in {"idle", "returned"}
    /\ \E site \in WaitSites : wt_site' = site
    /\ wt_pc' = "waiting"
    /\ wt_result' = NoWaitResult
    /\ UNCHANGED notWait

\* The child exits, or could not be started.
WtChildEnds ==
    /\ wt_pc = "waiting"
    /\ \E res \in WaitResults :
         /\ res.kind # "timeout"
         /\ wt_result' = res
    /\ wt_pc' = "returned"
    /\ UNCHANGED wt_site
    /\ UNCHANGED notWait

\* The timeout passes and subprocess.run raises TimeoutExpired.
WtTimeoutExpires ==
    /\ wt_pc = "waiting"
    /\ wt_site.bounded
    /\ wt_result' = [kind |-> "timeout", code |-> -1]
    /\ wt_pc' = "returned"
    /\ UNCHANGED wt_site
    /\ UNCHANGED notWait

WaitNext == WtCall \/ WtChildEnds \/ WtTimeoutExpires

\* The child is under no obligation to exit; the timer is.
SpecWait == WaitInit /\ [][WaitNext]_vars /\ WF_vars(WtTimeoutExpires)

(***************************************************************************)
(* One call of install_app_winget_version (installer.py:111-159),          *)
(* install_app_winget (installer.py:172-216), install_npm_tool             *)
(* (ai_tools.py:100-136), install_autohotkey (autohotkey.py:70-119) or     *)
(* activate_power_plan (power.py:100-104): how often it spawns its         *)
(* command.  `proceeds` is what the steps before the command decide; only  *)
(* install_autohotkey has such steps (already installed, winget missing,   *)
(* confirmation declined: return without the command).                     *)
(***************************************************************************)
AttemptCalls ==
    [fn : {"install_app_winget_version", "install_app_winget", "install_npm_tool",
           "activate_power_plan"},
     proceeds : {TRUE}]
        \cup [fn : {"install_autohotkey"}, proceeds : BOOLEAN]

\* The value the function returns once its child has ended.
attempt_result(fn, res) ==
    CASE fn \in {"install_app_winget_version", "install_app_winget"} -> winget_install_result(res)
      [] fn = "install_npm_tool" -> npm_install_result(res)
      [] fn = "activate_power_plan" ->
            run_command_result([kind |-> res.kind, code |-> res.code,
                                stdout |-> <<>>, stderr |-> res.stderr]).success
      [] OTHER -> "none"

\* A plausible slip: a failed command is tried a second time.
attempt_next_retry_once(spawns, res) ==
    IF (res.kind # "exit" \/ res.code # 0) /\ spawns < 2 THEN "running" ELSE "returned"

\* Where the function goes when its child has ended: none of the five has
\* a loop around subprocess.run / run_command.
attempt_next(spawns, res) == "returned"

AttemptInit ==
    /\ LoopIdle
    /\ StartupIdle
    /\ OptionsIdle
    /\ CustomIdle
    /\ CreateIdle
    /\ RunIdle
    /\ DebloatIdle
    /\ ChoiceIdle
    /\ ElevateIdle
    /\ ConfirmIdle
    /\ ScriptIdle
    /\ RunnerIdle
    /\ InstallIdle
    /\ PowerIdle
    /\ MenuIdle
    /\ FlowIdle
    /\ ProbeIdle
    /\ WaitIdle
    /\ AttemptIdle

\* The user selects the action and the function runs up to its command.
AtCall ==
    /\ at_pc \in {"idle", "returned"}
    /\ \E call \in AttemptCalls :
         /\ at_call' = call
         /\ IF call.proceeds
            THEN at_pc' = "running" /\ at_spawns' = 1
            ELSE at_pc' = "returned" /\ at_spawns' = 0
    /\ at_result' = NoInstallResult
    /\ at_ret' = "none"
    /\ UNCHANGED notAttempt

\* The child ends (or subprocess.run raises) and the function goes on.
AtProcessEnds ==
    /\ at_pc = "running"
    /\ \E res \in InstallOutcomes :
         /\ at_result' = res
         /\ at_pc' = attempt_next(at_spawns, res)
         /\ IF attempt_next(at_spawns, res) = "returned"
            THEN /\ at_ret' = attempt_result(at_call.fn, res)
                 /\ at_spawns' = at_spawns
            ELSE /\ at_ret' = "none"
                 /\ at_spawns' = at_spawns + 1
    /\ UNCHANGED at_call
    /\ UNCHANGED notAttempt

AttemptNext == AtCall \/ AtProcessEnds

SpecAttempt == AttemptInit /\ [][AttemptNext]_vars

(***************************************************************************)
(* WindowsAutomationToolkit.run (main.py:37-50) with                       *)
(* SystemUtils.relaunch_as_admin (system.py:27-38).  ShellExecuteW either  *)
(* raises (ctypes cannot make the call) or returns a number: above 32 the  *)
(* elevated process was started, up to 32 it was not (5: the elevation     *)
(* request was refused).                                                   *)
(***************************************************************************)
ShellResults ==
    [kind : {"returned"}, code : {0, 2, 5, 8, 32, 33, 42}]
        \cup [kind : {"raised"}, code : {-1}]

ElevateInit ==
    /\ LoopIdle
    /\ StartupIdle
    /\ OptionsIdle
    /\ CustomIdle
    /\ CreateIdle
    /\ RunIdle
    /\ DebloatIdle
    /\ ChoiceIdle
    /\ ConfirmIdle
    /\ ScriptIdle
    /\ RunnerIdle
    /\ InstallIdle
    /\ PowerIdle
    /\ MenuIdle
    /\ FlowIdle
    /\ ProbeIdle
    /\ WaitIdle
    /\ AttemptIdle
    /\ el_pc = "start"
    /\ is_admin \in BOOLEAN
    /\ el_response = <<>>
    /\ el_asked = 0
    /\ el_shell = NoShell
    /\ el_msgs = <<>>

\* main.py:40-42, 50: an elevated process goes straight to the main menu,
\* any other prints the warning and asks.
ElStart ==
    /\ el_pc = "start"
    /\ IF is_admin
       THEN el_pc' = "main_menu" /\ el_msgs' = el_msgs /\ el_asked' = el_asked
       ELSE /\ el_pc' = "confirm"
            /\ el_msgs' = Append(el_msgs, "requires_administrator")
            /\ el_asked' = el_asked + 1
    /\ UNCHANGED <<is_admin, el_response, el_shell>>
    /\ UNCHANGED notElevate

\* main.py:42-47 with system.py:29-32: a line is read by get_confirmation.
ElAnswer ==
    /\ el_pc = "confirm"
    /\ \E raw \in SiteLines :
         /\ el_response' = raw
         /\ CASE get_confirmation(raw) = "reprompt" ->
                   el_pc' = "confirm" /\ el_msgs' = el_msgs
              [] get_confirmation(raw) = "no" ->
                   /\ el_pc' = "main_menu"
                   /\ el_msgs' = Append(el_msgs, "some_features_may_not_work")
              [] OTHER ->
                   el_pc' = "shell_execute" /\ el_msgs' = el_msgs
    /\ UNCHANGED <<is_admin, el_asked, el_shell>>
    /\ UNCHANGED notElevate

\* system.py:31-37 with main.py:43-50: ShellExecuteW comes back.  Its
\* return value is not looked at: sys.exit(0) follows every return; only an
\* exception leads to the message, False, and the main menu.
ElShellExecuteEnds ==
    /\ el_pc = "shell_execute"
    /\ \E res \in ShellResults :
         /\ el_shell' = res
         /\ IF res.kind = "raised"
            THEN /\ el_pc' = "main_menu"
                 /\ el_msgs' = Append(el_msgs, "failed_to_relaunch_as_admin")
            ELSE /\ el_pc' = "exited"
                 /\ el_msgs' = el_msgs
    /\ UNCHANGED <<is_admin, el_response, el_asked>>
    /\ UNCHANGED notElevate

ElevateNext == ElStart \/ ElAnswer \/ ElShellExecuteEnds

SpecElevate == ElevateInit /\ [][ElevateNext]_vars

(***************************************************************************)
(* get_menu_choice (system.py:347-377).  Where msvcrt imports, one byte is *)
(* read per key press and decoded; elsewhere a line is read and stripped.  *)
(* A step is taken when a key is pressed or a line is entered.             *)
(***************************************************************************)
\* Keys of the options mappings the menus pass.
OptionKeys == {<<"0">>, <<"1">>, <<"2">>, <<"q">>, <<"1", "0">>}

OptionKeySets == (SUBSET OptionKeys) \ {{}}

\* Bytes msvcrt.getch() returns: NUL and 0xE0 open the two-byte code of a
\* function or arrow key, the others are the characters 0 1 2 Q q x.
KeyBytes == {0, 48, 49, 50, 81, 113, 120, 224}

Chr == [b \in {0, 48, 49, 50, 81, 113, 120} |->
           CASE b = 0 -> "NUL"
             [] b = 48 -> "0"
             [] b = 49 -> "1"
             [] b = 50 -> "2"
             [] b = 81 -> "Q"
             [] b = 113 -> "q"
             [] OTHER -> "x"]

\* bytes.decode('utf-8') of one byte: a character below 0x80, and
\* UnicodeDecodeError from 0x80 on, where no one-byte sequence is complete.
decode_utf8(b) ==
    IF b \in DOMAIN Chr
    THEN [ok |-> TRUE, text |-> <<Chr[b]>>]
    ELSE [ok |-> FALSE, text |-> <<>>]

\* Lines entered in the fallback path.
ChoiceLines ==
    {<<>>, <<"1">>, <<" ", "1">>, <<"2", " ">>, <<"1", "0">>, <<"q">>, <<"Q">>, <<"x">>}

ChoiceInit ==
    /\ LoopIdle
    /\ StartupIdle
    /\ OptionsIdle
    /\ CustomIdle
    /\ CreateIdle
    /\ RunIdle
    /\ DebloatIdle
    /\ ChoiceIdle
    /\ ConfirmIdle /\ ScriptIdle /\ RunnerIdle /\ InstallIdle /\ PowerIdle
    /\ MenuIdle /\ FlowIdle /\ ProbeIdle /\ WaitIdle /\ AttemptIdle /\ ElevateIdle

\* system.py:347-354, 370: the call; the import of msvcrt picks the path.
GcCall ==
    /\ gc_pc = "idle"
    /\ \E options \in OptionKeySets, path \in {"keypress", "line"} :
         /\ gc_options' = options
         /\ gc_path' = path
    /\ gc_pc' = "reading"
    /\ UNCHANGED <<gc_key, gc_ret, gc_msg, gc_reads, gc_byte>>
    /\ UNCHANGED notChoice

\* system.py:356-369: a key is pressed.
GcKeyPressed ==
    /\ gc_pc = "reading"
    /\ gc_path = "keypress"
    /\ gc_reads < MaxReads
    /\ \E b \in KeyBytes :
         LET d == decode_utf8(b)
             key == d.text
         IN  /\ gc_byte' = b
             /\ gc_reads' = gc_reads + 1
             /\ IF ~d.ok
                THEN /\ gc_pc' = "raised"
                     /\ UNCHANGED <<gc_key, gc_ret, gc_msg>>
                ELSE /\ gc_key' = key
                     /\ CASE key \in gc_options ->
                               /\ gc_pc' = "returned"
                               /\ gc_ret' = key
                               /\ UNCHANGED gc_msg
                          [] key \notin gc_options /\ Lower(key) = <<"q">> ->
                               /\ gc_pc' = "exited"
                               /\ gc_msg' = "exiting"
                               /\ UNCHANGED gc_ret
                          [] OTHER ->
                               /\ gc_pc' = "reading"
                               /\ gc_msg' = "invalid_option_key"
                               /\ UNCHANGED gc_ret
    /\ UNCHANGED <<gc_path, gc_options>>
    /\ UNCHANGED notChoice

\* system.py:371-377: a line is entered.
GcLineRead ==
    /\ gc_pc = "reading"
    /\ gc_path = "line"
    /\ gc_reads < MaxReads
    /\ \E raw \in ChoiceLines :
         LET choice == Strip(raw)
         IN  /\ gc_key' = choice
             /\ gc_reads' = gc_reads + 1
             /\ IF choice \in gc_options
                THEN /\ gc_pc' = "returned"
                     /\ gc_ret' = choice
                     /\ UNCHANGED gc_msg
                ELSE /\ gc_pc' = "paused"
                     /\ gc_msg' = "invalid_option"
                     /\ UNCHANGED gc_ret
    /\ UNCHANGED <<gc_path, gc_options, gc_byte>>
    /\ UNCHANGED notChoice

\* system.py:377, 44-46: Enter ends the pause and the prompt repeats.
GcPauseEnds ==
    /\ gc_pc = "paused"
    /\ gc_pc' = "reading"
    /\ UNCHANGED <<gc_path, gc_options, gc_key, gc_ret, gc_msg, gc_reads, gc_byte>>
    /\ UNCHANGED notChoice

ChoiceNext == GcCall \/ GcKeyPressed \/ GcLineRead \/ GcPauseEnds

SpecChoice == ChoiceInit /\ [][ChoiceNext]_vars

(***************************************************************************)
(* The debloat menu (debloat.py:16-86).  Each round renders the three      *)
(* categories with running numbers, reads a line, and hands a number to    *)
(* handle_debloat_choice, which rebuilds the numbering on its own.         *)
(***************************************************************************)
\* settings.py:6-33: the entries of one category, in insertion order.
CategoryScripts(category, n) == [i \in 1..n |-> [category |-> category, key |-> i]]

\* The configurations: up to MaxPerCategory scripts per category; the one
\* shipped has two debloat scripts, one tweak and one activation script.
POWERSHELL_SCRIPTS ==
    {[debloat |-> CategoryScripts("debloat", nd),
      tweaks |-> CategoryScripts("tweaks", nt),
      activation |-> CategoryScripts("activation", na)] :
        nd \in 0..MaxPerCategory, nt \in 0..MaxPerCategory, na \in 0..MaxPerCategory}

\* enumerate(items, start): the numbers printed next to the entries.
enumerate(items, start) ==
    [i \in 1..Len(items) |-> [number |-> start + i - 1, script |-> items[i]]]

\* debloat.py:25-41: the numbered entries show_debloat_menu prints.
menu_entries(scripts) ==
    LET tweak_count == Len(scripts.debloat)
        activation_count == tweak_count + Len(scripts.tweaks)
    IN  enumerate(scripts.debloat, 1)
            \o enumerate(scripts.tweaks, tweak_count + 1)
            \o enumerate(scripts.activation, activation_count + 1)

\* debloat.py:56-74: all_scripts, filled with script_index counting up from 1.
all_scripts(scripts) ==
    LET flat == scripts.debloat \o scripts.tweaks \o scripts.activation
    IN  [script_index \in 1..Len(flat) |-> flat[script_index]]

\* Characters of the lines typed; "SUP9" stands for the one character
\* U+2079 (superscript nine).
DecimalValue ==
    [c \in {"0", "1", "2", "3", "4", "5", "6", "7", "8", "9"} |->
        CASE c = "0" -> 0 [] c = "1" -> 1 [] c = "2" -> 2 [] c = "3" -> 3
          [] c = "4" -> 4 [] c = "5" -> 5 [] c = "6" -> 6 [] c = "7" -> 7
          [] c = "8" -> 8 [] OTHER -> 9]

\* str.isdigit(): non-empty and every character has the Unicode property
\* Digit, which the decimal digits and the superscript digits both have.
isdigit(s) ==
    /\ s # <<>>
    /\ \A i \in 1..Len(s) : s[i] \in DOMAIN DecimalValue \cup {"SUP9"}

\* int(s) of a stripped line of digits: only decimal digits are taken;
\* any other character is ValueError.
RECURSIVE decimal(_)
decimal(s) ==
    IF s = <<>> THEN 0
    ELSE decimal(SubSeq(s, 1, Len(s) - 1)) * 10 + DecimalValue[s[Len(s)]]

int(s) ==
    IF \A i \in 1..Len(s) : s[i] \in DOMAIN DecimalValue
    THEN [ok |-> TRUE, value |-> decimal(s)]
    ELSE [ok |-> FALSE, value |-> 0]

\* Lines typed at the debloat menu.
DebloatLines ==
    {<<c>> : c \in DOMAIN DecimalValue}
        \cup {<<"1", "0">>, <<"0", "1">>, <<"0", "0">>, <<" ", "2">>, <<"3", " ">>,
              <<"SUP9">>, <<"a">>, <<>>, <<"-", "1">>, <<"1", "a">>}

DebloatInit ==
    /\ LoopIdle
    /\ StartupIdle
    /\ OptionsIdle
    /\ CustomIdle
    /\ CreateIdle
    /\ RunIdle
    /\ db_pc = "idle"
    /\ db_scripts \in POWERSHELL_SCRIPTS
    /\ db_shown = <<>>
    /\ db_choice = <<>>
    /\ db_ran = NoScript
    /\ db_msg = "none"
    /\ ConfirmIdle /\ ScriptIdle /\ RunnerIdle /\ InstallIdle /\ PowerIdle
    /\ MenuIdle /\ FlowIdle /\ ProbeIdle /\ WaitIdle /\ AttemptIdle /\ ElevateIdle
    /\ ChoiceIdle

\* debloat.py:16-43: the module is entered and the menu rendered.
DbEnter ==
    /\ db_pc = "idle"
    /\ db_pc' = "menu"
    /\ db_shown' = menu_entries(db_scripts)
    /\ UNCHANGED <<db_scripts, db_choice, db_ran, db_msg>>
    /\ UNCHANGED notDebloat

\* debloat.py:45-52, 54-86: a line is read and dispatched.
DbChoose ==
    /\ db_pc = "menu"
    /\ \E raw \in DebloatLines :
         LET choice == Strip(raw)
             n == int(choice)
         IN  /\ db_choice' = choice
             /\ CASE choice = <<"0">> ->
                       /\ db_pc' = "left"
                       /\ db_ran' = NoScript
                       /\ UNCHANGED db_msg
                  [] choice # <<"0">> /\ isdigit(choice) /\ ~n.ok ->
                       /\ db_pc' = "raised"
                       /\ db_ran' = NoScript
                       /\ UNCHANGED db_msg
                  [] choice # <<"0">> /\ isdigit(choice) /\ n.ok
                        /\ n.value \in DOMAIN all_scripts(db_scripts) ->
                       /\ db_pc' = "running"
                       /\ db_ran' = all_scripts(db_scripts)[n.value]
                       /\ UNCHANGED db_msg
                  [] OTHER ->
                       /\ db_pc' = "paused"
                       /\ db_ran' = NoScript
                       /\ db_msg' = "invalid_option"
    /\ UNCHANGED <<db_scripts, db_shown>>
    /\ UNCHANGED notDebloat

\* debloat.py:78-83: run_powershell_script has returned.
DbScriptEnds ==
    /\ db_pc = "running"
    /\ \E success \in BOOLEAN :
         db_msg' = IF success THEN "completed_successfully" ELSE "failed"
    /\ db_pc' = "paused"
    /\ UNCHANGED <<db_scripts, db_shown, db_choice, db_ran>>
    /\ UNCHANGED notDebloat

\* debloat.py:52, 83, 86, 18-43: Enter ends the pause; the menu is rendered
\* again.
DbPauseEnds ==
    /\ db_pc = "paused"
    /\ db_pc' = "menu"
    /\ db_shown' = menu_entries(db_scripts)
    /\ UNCHANGED <<db_scripts, db_choice, db_ran, db_msg>>
    /\ UNCHANGED notDebloat

DebloatNext == DbEnter \/ DbChoose \/ DbScriptEnds \/ DbPauseEnds

SpecDebloat == DebloatInit /\ [][DebloatNext]_vars

(***************************************************************************)
(* run_script (autohotkey.py:151-193) with is_script_running               *)
(* (autohotkey.py:317-327).  A step is taken when a child process call     *)
(* comes back, when the sleep ends and when Enter ends the pause.  The     *)
(* launched process and the process list belong to the environment: the    *)
(* process may exit at any time.                                           *)
(***************************************************************************)
\* autohotkey.py:317-327: "AutoHotkey64.exe" in the tasklist output; any
\* exception of the call gives False.
is_script_running(tasklist, present) ==
    IF tasklist = "listed" /\ present THEN "True" ELSE "False"

\* An AutoHotkey64.exe process exists.
ProcessPresent == rs_other \/ rs_child = "alive"

\* A plausible slip: a negative poll goes back to the launch.
after_second_poll_retry(running) ==
    IF running = "True" THEN "paused" ELSE "launching"

\* autohotkey.py:183-193: after the poll the result is printed and nothing
\* else is started.
after_second_poll(running) == "paused"

RunInit ==
    /\ LoopIdle
    /\ StartupIdle
    /\ OptionsIdle
    /\ CustomIdle
    /\ CreateIdle
    /\ rs_pc = "idle"
    /\ rs_calls = 0
    /\ rs_child = "none"
    /\ rs_other \in BOOLEAN
    /\ rs_launches = 0
    /\ rs_polls = 0
    /\ rs_first = "none"
    /\ rs_second = "none"
    /\ rs_msg = "none"
    /\ ConfirmIdle /\ ScriptIdle /\ RunnerIdle /\ InstallIdle /\ PowerIdle
    /\ MenuIdle /\ FlowIdle /\ ProbeIdle /\ WaitIdle /\ AttemptIdle /\ ElevateIdle
    /\ ChoiceIdle /\ DebloatIdle

\* autohotkey.py:151-154: the menu entry is chosen.
RsCall ==
    /\ rs_pc \in {"idle", "returned"}
    /\ rs_calls < MaxCalls
    /\ rs_calls' = rs_calls + 1
    /\ rs_pc' = "check_installed"
    /\ rs_launches' = 0
    /\ rs_polls' = 0
    /\ rs_first' = "none"
    /\ rs_second' = "none"
    /\ rs_msg' = "none"
    /\ UNCHANGED <<rs_child, rs_other>>
    /\ UNCHANGED notRun

\* autohotkey.py:156-165: check_autohotkey_installed comes back; the path
\* get_script_path returns is never empty.
RsInstalledCheckEnds ==
    /\ rs_pc = "check_installed"
    /\ \E end \in NameEnds :
         LET step == probe_step("check_autohotkey_installed", "name", end)
         IN  CASE step = "true" -> rs_pc' = "first_poll" /\ UNCHANGED rs_msg
               [] step = "raise" -> rs_pc' = "raised" /\ UNCHANGED rs_msg
               [] OTHER -> rs_pc' = "paused" /\ rs_msg' = "not_installed"
    /\ UNCHANGED <<rs_calls, rs_child, rs_other, rs_launches, rs_polls, rs_first, rs_second>>
    /\ UNCHANGED notRun

\* autohotkey.py:167-170: the poll before the launch.
RsFirstPollEnds ==
    /\ rs_pc = "first_poll"
    /\ \E tasklist \in {"listed", "raised"} :
         LET running == is_script_running(tasklist, ProcessPresent)
         IN  /\ rs_first' = running
             /\ IF running = "True"
                THEN rs_pc' = "paused" /\ rs_msg' = "already_running"
                ELSE rs_pc' = "launching" /\ UNCHANGED rs_msg
    /\ UNCHANGED <<rs_calls, rs_child, rs_other, rs_launches, rs_polls, rs_second>>
    /\ UNCHANGED notRun

\* autohotkey.py:172-176, 190-191: Popen starts the process or raises.
RsPopenEnds ==
    /\ rs_pc = "launching"
    /\ \E started \in BOOLEAN :
         IF started
         THEN /\ rs_launches' = rs_launches + 1
              /\ rs_child' = "alive"
              /\ rs_pc' = "sleeping"
              /\ UNCHANGED rs_msg
         ELSE /\ rs_pc' = "paused"
              /\ rs_msg' = "error_running_script"
              /\ UNCHANGED <<rs_launches, rs_child>>
    /\ UNCHANGED <<rs_calls, rs_other, rs_polls, rs_first, rs_second>>
    /\ UNCHANGED notRun

\* autohotkey.py:178-180: the two seconds pass.
RsSleepEnds ==
    /\ rs_pc = "sleeping"
    /\ rs_pc' = "second_poll"
    /\ UNCHANGED <<rs_calls, rs_child, rs_other, rs_launches, rs_polls, rs_first, rs_second, rs_msg>>
    /\ UNCHANGED notRun

\* autohotkey.py:182-188: the poll after the wait.
RsSecondPollEnds ==
    /\ rs_pc = "second_poll"
    /\ \E tasklist \in {"listed", "raised"} :
         LET running == is_script_running(tasklist, ProcessPresent)
         IN  /\ rs_second' = running
             /\ rs_msg' = IF running = "True" THEN "now_running" ELSE "failed_to_start"
             /\ rs_pc' = after_second_poll(running)
    /\ rs_polls' = rs_polls + 1
    /\ UNCHANGED <<rs_calls, rs_child, rs_other, rs_launches, rs_first>>
    /\ UNCHANGED notRun

\* autohotkey.py:193, 158, 164, 169: Enter ends the pause and run_script
\* returns.
RsPauseEnds ==
    /\ rs_pc = "paused"
    /\ rs_pc' = "returned"
    /\ UNCHANGED <<rs_calls, rs_child, rs_other, rs_launches, rs_polls, rs_first, rs_second, rs_msg>>
    /\ UNCHANGED notRun

\* The launched process ends on its own.
RsChildExits ==
    /\ rs_child = "alive"
    /\ rs_child' = "exited"
    /\ UNCHANGED <<rs_pc, rs_calls, rs_other, rs_launches, rs_polls, rs_first, rs_second, rs_msg>>
    /\ UNCHANGED notRun

RunNext ==
    \/ RsCall
    \/ RsInstalledCheckEnds
    \/ RsFirstPollEnds
    \/ RsPopenEnds
    \/ RsSleepEnds
    \/ RsSecondPollEnds
    \/ RsPauseEnds
    \/ RsChildExits

SpecRun == RunInit /\ [][RunNext]_vars

(***************************************************************************)
(* create_script (autohotkey.py:121-149).  A path is the sequence of its   *)
(* components; a text is a sequence of pieces, with "\n" the line feed.    *)
(* The body of create_script runs without waiting up to the pause, so one  *)
(* action takes it there; the file may be edited between two calls.        *)
(***************************************************************************)
\* os.path.join of a path and one more component.
join(path, name) == Append(path, name)

\* system.py:17-18: the Documents folder, fixed at construction.
documents_folder(home) == join(<<home>>, "Documents")

\* autohotkey.py:312-315 and 127, 134: the path of the script.
get_script_path(home) == join(join(documents_folder(home), "AutoHotKey"), "automation.ahk")

\* settings.py:63-80: the template, line by line.
AHK_SCRIPT_CONTENT ==
    <<"; Full F3 -> Left Mouse Button", "\n",
      "#Requires AutoHotkey v2.0", "\n",
      "F3::{...}", "\n",
      "MButton::Send(\"!{Left}\")", "\n">>

\* Text-mode write on Windows: every line feed goes out as CR LF.
RECURSIVE text_mode(_)
text_mode(text) ==
    IF text = <<>> THEN <<>>
    ELSE (IF Head(text) = "\n" THEN <<"\r", "\n">> ELSE <<Head(text)>>)
             \o text_mode(Tail(text))

\* A plausible slip: the file opened for appending.
write_file_appending(old, text) == old \o text_mode(text)

\* autohotkey.py:137-138: open(script_path, 'w') and f.write: the old
\* content is gone.
write_file(old, text) == text_mode(text)

\* How the write ends: done; open() raises and the file is as before; or
\* the write raises after open() has truncated the file, with `kept`
\* pieces on disk.
WriteEnds ==
    {[kind |-> "ok", kept |-> 0], [kind |-> "open_failed", kept |-> 0],
     [kind |-> "write_failed", kept |-> 0], [kind |-> "write_failed", kept |-> 1]}

CreateInit ==
    /\ LoopIdle
    /\ StartupIdle
    /\ OptionsIdle
    /\ CustomIdle
    /\ cs_pc = "idle"
    /\ cs_home \in {"C:\\Users\\a", "C:\\Users\\b"}
    /\ cs_dir \in BOOLEAN
    /\ cs_file = NoFile
    /\ cs_log = <<>>
    /\ cs_msg = "none"
    /\ ConfirmIdle /\ ScriptIdle /\ RunnerIdle /\ InstallIdle /\ PowerIdle
    /\ MenuIdle /\ FlowIdle /\ ProbeIdle /\ WaitIdle /\ AttemptIdle /\ ElevateIdle
    /\ ChoiceIdle /\ DebloatIdle /\ RunIdle

\* autohotkey.py:121-147: create_script up to the pause.
CsCall ==
    /\ cs_pc \in {"idle", "returned"}
    /\ Len(cs_log) < MaxCalls
    /\ \E made \in BOOLEAN, end \in WriteEnds :
         LET script_path == get_script_path(cs_home)
             written == write_file(cs_file.content, AHK_SCRIPT_CONTENT)
         IN  IF ~made
             THEN \* ensure_directory_exists returned False
                  /\ cs_msg' = "failed_to_create_directory"
                  /\ cs_log' = Append(cs_log, [ok |-> FALSE, file |-> cs_file, path |-> NoPath])
                  /\ UNCHANGED <<cs_dir, cs_file>>
             ELSE /\ cs_dir' = TRUE
                  /\ CASE end.kind = "ok" ->
                            /\ cs_file' = [exists |-> TRUE, content |-> written]
                            /\ cs_msg' = "script_created_at"
                            /\ cs_log' = Append(cs_log, [ok |-> TRUE, file |-> cs_file', path |-> script_path])
                       [] end.kind = "open_failed" ->
                            /\ cs_file' = cs_file
                            /\ cs_msg' = "error_creating_script"
                            /\ cs_log' = Append(cs_log, [ok |-> FALSE, file |-> cs_file', path |-> NoPath])
                       [] OTHER ->
                            /\ cs_file' = [exists |-> TRUE, content |-> SubSeq(written, 1, end.kept)]
                            /\ cs_msg' = "error_creating_script"
                            /\ cs_log' = Append(cs_log, [ok |-> FALSE, file |-> cs_file', path |-> NoPath])
    /\ cs_pc' = "paused"
    /\ UNCHANGED cs_home
    /\ UNCHANGED notCreate

\* autohotkey.py:131, 149: Enter ends the pause.
CsPauseEnds ==
    /\ cs_pc = "paused"
    /\ cs_pc' = "returned"
    /\ UNCHANGED <<cs_home, cs_dir, cs_file, cs_log, cs_msg>>
    /\ UNCHANGED notCreate

\* autohotkey.py:329-343: the user changes the script in the editor that
\* edit_script opened.
CsEdited ==
    /\ cs_pc = "returned"
    /\ cs_file.exists
    /\ cs_file.content # <<"; edited">>
    /\ cs_file' = [exists |-> TRUE, content |-> <<"; edited">>]
    /\ UNCHANGED <<cs_pc, cs_home, cs_dir, cs_log, cs_msg>>
    /\ UNCHANGED notCreate

CreateNext == CsCall \/ CsPauseEnds \/ CsEdited

SpecCreate == CreateInit /\ [][CreateNext]_vars

(***************************************************************************)
(* The custom entries of the app list and of the AI tool list              *)
(* (installer.py:316-331, ai_tools.py:277-292), and the AI tools menu      *)
(* built from the tool list (ai_tools.py:51-70).  An app is a record       *)
(* [id, name], a tool a record [package, name]; one list is followed at a  *)
(* time.                                                                   *)
(***************************************************************************)
\* installer.py:318, ai_tools.py:279: the entry appended.
custom_entry(kind, key, name) ==
    IF kind = "apps" THEN [id |-> key, name |-> name] ELSE [package |-> key, name |-> name]

\* installer.py:316-320, ai_tools.py:277-281: list.append, nothing checked.
add_custom(list, entry) == Append(list, entry)

\* Index of the first entry with that name, 0 when there is none.
first_named(list, name) ==
    IF \E i \in 1..Len(list) : list[i].name = name
    THEN CHOOSE i \in 1..Len(list) :
             /\ list[i].name = name
             /\ \A j \in 1..(i - 1) : list[j].name # name
    ELSE 0

\* A plausible slip: every entry with that name is removed.
remove_custom_every(list, name) ==
    [list |-> SelectSeq(list, LAMBDA e : e.name # name),
     ret |-> IF first_named(list, name) = 0 THEN "False" ELSE "True"]

\* installer.py:322-331, ai_tools.py:283-292: pop(i) at the first match and
\* return True; False after the loop.
remove_custom(list, name) ==
    LET i == first_named(list, name)
    IN  IF i = 0
        THEN [list |-> list, ret |-> "False"]
        ELSE [list |-> SubSeq(list, 1, i - 1) \o SubSeq(list, i + 1, Len(list)),
              ret |-> "True"]

\* Arguments of the add and remove calls: new entries, and entries whose
\* id, package or name is in the list already.
CustomArgs(kind) ==
    IF kind = "apps"
    THEN {[key |-> "Git.Git", name |-> "Git"],
          [key |-> "Custom.App", name |-> "Git"],
          [key |-> "Custom.App", name |-> "Custom App"]}
    ELSE {[key |-> "opencode-ai", name |-> "OpenCode AI"],
          [key |-> "custom-tool", name |-> "Custom Tool"],
          [key |-> "other-tool", name |-> "Other Tool"]}

RemoveNames(kind) == {a.name : a \in CustomArgs(kind)} \cup {"Missing"}

default_list(kind) == IF kind = "apps" THEN ESSENTIAL_APPS ELSE AI_TOOLS

\* str(i) for the numbers of the menu.
str(i) ==
    CASE i = 0 -> "0" [] i = 1 -> "1" [] i = 2 -> "2" [] i = 3 -> "3" [] i = 4 -> "4"
      [] i = 5 -> "5" [] i = 6 -> "6" [] i = 7 -> "7" [] i = 8 -> "8" [] OTHER -> "9"

\* options[key] = {"title": title}: a key already there keeps its place and
\* gets the new title; a new key goes to the end.
dict_set(options, key, title) ==
    IF \E i \in 1..Len(options) : options[i].key = key
    THEN [i \in 1..Len(options) |->
             IF options[i].key = key THEN [key |-> key, title |-> title] ELSE options[i]]
    ELSE Append(options, [key |-> key, title |-> title])

\* ai_tools.py:52-54: the numbered entries, one per tool.
RECURSIVE numbered_options(_, _)
numbered_options(list, n) ==
    IF n = 0 THEN <<>>
    ELSE dict_set(numbered_options(list, n - 1), str(n), list[n].name)

\* ai_tools.py:51-57: the options of the AI tools menu.
ai_tools_options(list) ==
    dict_set(dict_set(dict_set(numbered_options(list, Len(list)),
                               "3", "iFlow CLI"),
                      "0", "Back to Main Menu"),
             "a", "Install All Tools")

\* The number a key of digits stands for (-1: not a digit key).
key_number(key) ==
    IF \E i \in 0..9 : str(i) = key THEN CHOOSE i \in 0..9 : str(i) = key ELSE -1

\* ai_tools.py:63-70, 78-82: the action started for a key.
ai_tools_dispatch(list, choice) ==
    CASE choice = "0" -> [kind |-> "back", name |-> ""]
      [] choice = "a" -> [kind |-> "install_all_tools", name |-> ""]
      [] choice \notin {"0", "a"} /\ key_number(choice) \in 1..Len(list) ->
            [kind |-> "install_npm_tool", name |-> list[key_number(choice)].name]
      [] choice = "3" /\ key_number(choice) \notin 1..Len(list) ->
            [kind |-> "install_iflow_cli", name |-> ""]
      [] OTHER -> NoAction

CustomInit ==
    /\ LoopIdle
    /\ StartupIdle
    /\ OptionsIdle
    /\ cu_kind \in {"apps", "tools"}
    /\ cu_list = default_list(cu_kind)
    /\ cu_before = <<>>
    /\ cu_op = NoOp
    /\ cu_ret = "none"
    /\ cu_pc = "idle"
    /\ cu_options = <<>>
    /\ cu_choice = ""
    /\ cu_ran = NoAction
    /\ ConfirmIdle /\ ScriptIdle /\ RunnerIdle /\ InstallIdle /\ PowerIdle
    /\ MenuIdle /\ FlowIdle /\ ProbeIdle /\ WaitIdle /\ AttemptIdle /\ ElevateIdle
    /\ ChoiceIdle /\ DebloatIdle /\ RunIdle /\ CreateIdle

\* installer.py:316-320, ai_tools.py:277-281
CuAdd ==
    /\ cu_pc = "idle"
    /\ Len(cu_list) < Len(default_list(cu_kind)) + MaxCustom
    /\ \E a \in CustomArgs(cu_kind) :
         /\ cu_op' = [fn |-> "add", key |-> a.key, name |-> a.name]
         /\ cu_list' = add_custom(cu_list, custom_entry(cu_kind, a.key, a.name))
    /\ cu_before' = cu_list
    /\ cu_ret' = "True"
    /\ UNCHANGED <<cu_kind, cu_pc, cu_options, cu_choice, cu_ran>>
    /\ UNCHANGED notCustom

\* installer.py:322-331, ai_tools.py:283-292
CuRemove ==
    /\ cu_pc = "idle"
    /\ \E name \in RemoveNames(cu_kind) :
         /\ cu_op' = [fn |-> "remove", key |-> "", name |-> name]
         /\ cu_list' = remove_custom(cu_list, name).list
         /\ cu_ret' = remove_custom(cu_list, name).ret
    /\ cu_before' = cu_list
    /\ UNCHANGED <<cu_kind, cu_pc, cu_options, cu_choice, cu_ran>>
    /\ UNCHANGED notCustom

\* ai_tools.py:51-59: the menu is built and printed.
CuShowMenu ==
    /\ cu_pc = "idle"
    /\ cu_kind = "tools"
    /\ cu_pc' = "menu"
    /\ cu_options' = ai_tools_options(cu_list)
    /\ cu_choice' = ""
    /\ cu_ran' = NoAction
    /\ UNCHANGED <<cu_kind, cu_list, cu_before, cu_op, cu_ret>>
    /\ UNCHANGED notCustom

\* ai_tools.py:61-70: get_menu_choice returns a key of the options.
CuChoose ==
    /\ cu_pc = "menu"
    /\ \E i \in 1..Len(cu_options) :
         /\ cu_choice' = cu_options[i].key
         /\ cu_ran' = ai_tools_dispatch(cu_list, cu_options[i].key)
    /\ cu_pc' = "chosen"
    /\ UNCHANGED <<cu_kind, cu_list, cu_before, cu_op, cu_ret, cu_options>>
    /\ UNCHANGED notCustom

\* The action started is over and the menu left; its screen is cleared.
CuDone ==
    /\ cu_pc = "chosen"
    /\ cu_pc' = "idle"
    /\ cu_options' = <<>>
    /\ cu_choice' = ""
    /\ cu_ran' = NoAction
    /\ UNCHANGED <<cu_kind, cu_list, cu_before, cu_op, cu_ret>>
    /\ UNCHANGED notCustom

CustomNext == CuAdd \/ CuRemove \/ CuShowMenu \/ CuChoose \/ CuDone

SpecCustom == CustomInit /\ [][CustomNext]_vars

(***************************************************************************)
(* show_app_options (installer.py:53-100): the options of one app.  The    *)
(* apps of settings.py and those add_custom_app appends have the fields id *)
(* and name only; an app with a versions field is followed as well.        *)
(***************************************************************************)
\* The apps an index can select.
OptionApps ==
    {ESSENTIAL_APPS[i] : i \in 1..Len(ESSENTIAL_APPS)}
        \cup {custom_entry("apps", "Custom.App", "Custom App"),
              [id |-> "Versioned.App", name |-> "Versioned App",
               versions |-> <<"latest", "1.0">>]}

\* app.get('versions', ['latest'])
get_versions(app) == IF "versions" \in DOMAIN app THEN app.versions ELSE <<"latest">>

\* installer.py:66-67: one option per version.
RECURSIVE version_options(_, _)
version_options(versions, n) ==
    IF n = 0 THEN <<>>
    ELSE dict_set(version_options(versions, n - 1), str(n), <<"Install", versions[n]>>)

\* installer.py:63-72: the options of the menu.
app_options(app) ==
    LET num_versions == Len(get_versions(app))
    IN  dict_set(dict_set(version_options(get_versions(app), num_versions),
                          str(num_versions + 1), <<"Download from", "N/A">>),
                 "0", <<"Back to Apps List">>)

\* installer.py:78-97: what a key leads to; app['versions'] of an app
\* without that field is KeyError.
app_option_step(app, choice) ==
    LET choice_num == key_number(choice)
        num_versions == Len(get_versions(app))
    IN  CASE choice = "0" -> [to |-> "return", version |-> ""]
          [] choice # "0" /\ choice_num \in 1..num_versions ->
                IF "versions" \in DOMAIN app
                THEN [to |-> "install", version |-> app.versions[choice_num]]
                ELSE [to |-> "raise", version |-> ""]
          [] choice # "0" /\ choice_num = num_versions + 1 ->
                [to |-> "download_link", version |-> ""]
          [] OTHER -> [to |-> "invalid", version |-> ""]

OptionsInit ==
    /\ LoopIdle
    /\ StartupIdle
    /\ ao_pc = "installer_menu"
    /\ ao_app = NoApp
    /\ ao_options = <<>>
    /\ ao_choice = ""
    /\ ao_call = NoInstallCall
    /\ ao_msg = "none"
    /\ ao_rounds = 0
    /\ ConfirmIdle /\ ScriptIdle /\ RunnerIdle /\ InstallIdle /\ PowerIdle
    /\ MenuIdle /\ FlowIdle /\ ProbeIdle /\ WaitIdle /\ AttemptIdle /\ ElevateIdle
    /\ ChoiceIdle /\ DebloatIdle /\ RunIdle /\ CreateIdle /\ CustomIdle

\* installer.py:46-47, 53-74: an app is selected and its options rendered.
AoSelectApp ==
    /\ ao_pc = "installer_menu"
    /\ ao_rounds < MaxReads
    /\ \E app \in OptionApps :
         /\ ao_app' = app
         /\ ao_options' = app_options(app)
    /\ ao_pc' = "options_menu"
    /\ ao_rounds' = ao_rounds + 1
    /\ ao_choice' = ""
    /\ ao_call' = NoInstallCall
    /\ ao_msg' = "none"
    /\ UNCHANGED notOptions

\* installer.py:76-97: a key of the options is chosen.
AoChoose ==
    /\ ao_pc = "options_menu"
    /\ \E i \in 1..Len(ao_options) :
         LET choice == ao_options[i].key
             step == app_option_step(ao_app, choice)
         IN  /\ ao_choice' = choice
             /\ CASE step.to = "return" ->
                       /\ ao_pc' = "installer_menu"
                       /\ UNCHANGED <<ao_call, ao_msg>>
                  [] step.to = "install" ->
                       /\ ao_pc' = "installing"
                       /\ ao_call' = [id |-> ao_app.id, name |-> ao_app.name,
                                      version |-> step.version]
                       /\ ao_msg' = "installing"
                  [] step.to = "raise" ->
                       /\ ao_pc' = "raised"
                       /\ UNCHANGED <<ao_call, ao_msg>>
                  [] step.to = "download_link" ->
                       /\ ao_pc' = "paused"
                       /\ ao_msg' = "download_link"
                       /\ UNCHANGED ao_call
                  [] OTHER ->
                       /\ ao_pc' = "paused"
                       /\ ao_msg' = "invalid_option"
                       /\ UNCHANGED ao_call
    /\ UNCHANGED <<ao_app, ao_options, ao_rounds>>
    /\ UNCHANGED notOptions

\* installer.py:87, 111-159, 58-74: the install is over, the options are
\* rendered again.
AoInstallEnds ==
    /\ ao_pc = "installing"
    /\ \E end \in ChildEnds : ao_msg' = InstallMsg(end)
    /\ ao_pc' = "options_menu"
    /\ ao_options' = app_options(ao_app)
    /\ UNCHANGED <<ao_app, ao_choice, ao_call, ao_rounds>>
    /\ UNCHANGED notOptions

\* installer.py:94, 97, 58-74: Enter ends the pause, the options are
\* rendered again.
AoPauseEnds ==
    /\ ao_pc = "paused"
    /\ ao_pc' = "options_menu"
    /\ ao_options' = app_options(ao_app)
    /\ UNCHANGED <<ao_app, ao_choice, ao_call, ao_msg, ao_rounds>>
    /\ UNCHANGED notOptions

OptionsNext == AoSelectApp \/ AoChoose \/ AoInstallEnds \/ AoPauseEnds

SpecOptions == OptionsInit /\ [][OptionsNext]_vars

(***************************************************************************)
(* run_script (autohotkey.py:151-193) and add_to_startup                   *)
(* (autohotkey.py:226-254) with the script file on disk.  The file system  *)
(* is the set of paths that exist.  create_script is what creates the      *)
(* script file; it runs between two calls.                                 *)
(***************************************************************************)
\* The profile folder of the user.
Home == "home"

\* os.path.join whose first component may be the empty string.
join_from(first, names) == IF first = "" THEN names ELSE <<first>> \o names

\* system.py:292-304: get_system_path("startup"); APPDATA defaults to ''.
startup_folder(appdata) ==
    join_from(appdata, <<"Microsoft", "Windows", "Start Menu", "Programs", "Startup">>)

\* autohotkey.py:245: the copy in the startup folder.
shortcut_path(appdata) == join(startup_folder(appdata), "automation.ahk")

\* `not path` of Python: the empty string only.
is_empty_path(path) == path = <<>>

\* autohotkey.py:230-235: what add_to_startup does with the two paths.
startup_gate(script_path, folder) ==
    IF is_empty_path(script_path) THEN "script_not_found"
    ELSE IF is_empty_path(folder) THEN "no_startup_folder"
    ELSE "copy"

\* autohotkey.py:160-170: what run_script does with the path and the poll.
run_gate(script_path, running) ==
    IF is_empty_path(script_path) THEN "script_not_found"
    ELSE IF running = "True" THEN "already_running"
    ELSE "launch"

\* shutil.copy2: the source must exist; the copy may also fail on the
\* destination.
copy2_ends(files, src) == IF src \in files THEN {"copied", "raised"} ELSE {"raised"}

StartupInit ==
    /\ LoopIdle
    /\ su_pc = "idle"
    /\ su_op = "none"
    /\ su_appdata \in {"", "AppData"}
    /\ su_files = {}
    /\ su_launches = 0
    /\ su_msg = "none"
    /\ su_calls = 0
    /\ ConfirmIdle /\ ScriptIdle /\ RunnerIdle /\ InstallIdle /\ PowerIdle
    /\ MenuIdle /\ FlowIdle /\ ProbeIdle /\ WaitIdle /\ AttemptIdle /\ ElevateIdle
    /\ ChoiceIdle /\ DebloatIdle /\ RunIdle /\ CreateIdle /\ CustomIdle /\ OptionsIdle

\* autohotkey.py:151-154, 226-229: one of the two menu entries is chosen.
SuCall ==
    /\ su_pc \in {"idle", "returned"}
    /\ su_calls < MaxCalls
    /\ su_calls' = su_calls + 1
    /\ \E op \in {"run_script", "add_to_startup"} :
         /\ su_op' = op
         /\ su_pc' = IF op = "run_script" THEN "check_installed" ELSE "gate"
    /\ su_launches' = 0
    /\ su_msg' = "none"
    /\ UNCHANGED <<su_appdata, su_files>>
    /\ UNCHANGED notStartup

\* autohotkey.py:137-138: create_script writes the script file.
SuCreateScript ==
    /\ su_pc \in {"idle", "returned"}
    /\ get_script_path(Home) \notin su_files
    /\ su_files' = su_files \cup {get_script_path(Home)}
    /\ UNCHANGED <<su_pc, su_op, su_appdata, su_launches, su_msg, su_calls>>
    /\ UNCHANGED notStartup

\* autohotkey.py:156-159: check_autohotkey_installed comes back.
SuInstalledCheckEnds ==
    /\ su_pc = "check_installed"
    /\ \E end \in NameEnds :
         LET step == probe_step("check_autohotkey_installed", "name", end)
         IN  CASE step = "true" -> su_pc' = "first_poll" /\ UNCHANGED su_msg
               [] step = "raise" -> su_pc' = "raised" /\ UNCHANGED su_msg
               [] OTHER -> su_pc' = "paused" /\ su_msg' = "not_installed"
    /\ UNCHANGED <<su_op, su_appdata, su_files, su_launches, su_calls>>
    /\ UNCHANGED notStartup

\* autohotkey.py:160-170: get_script_path, then the poll before the launch.
SuFirstPollEnds ==
    /\ su_pc = "first_poll"
    /\ \E tasklist \in {"listed", "raised"}, present \in BOOLEAN :
         LET gate == run_gate(get_script_path(Home), is_script_running(tasklist, present))
         IN  IF gate = "launch"
             THEN su_pc' = "launching" /\ UNCHANGED su_msg
             ELSE su_pc' = "paused" /\ su_msg' = gate
    /\ UNCHANGED <<su_op, su_appdata, su_files, su_launches, su_calls>>
    /\ UNCHANGED notStartup

\* autohotkey.py:172-176, 190-191: Popen([ahk_executable, script_path])
\* starts the interpreter or raises; the script file is not looked at.
SuPopenEnds ==
    /\ su_pc = "launching"
    /\ \E started \in BOOLEAN :
         IF started
         THEN /\ su_launches' = su_launches + 1
              /\ su_pc' = "second_poll"
              /\ UNCHANGED su_msg
         ELSE /\ su_pc' = "paused"
              /\ su_msg' = "error_running_script"
              /\ UNCHANGED su_launches
    /\ UNCHANGED <<su_op, su_appdata, su_files, su_calls>>
    /\ UNCHANGED notStartup

\* autohotkey.py:178-188: the two seconds pass and the second poll comes
\* back.
SuSecondPollEnds ==
    /\ su_pc = "second_poll"
    /\ \E tasklist \in {"listed", "raised"}, present \in BOOLEAN :
         su_msg' = IF is_script_running(tasklist, present) = "True"
                   THEN "now_running" ELSE "failed_to_start"
    /\ su_pc' = "paused"
    /\ UNCHANGED <<su_op, su_appdata, su_files, su_launches, su_calls>>
    /\ UNCHANGED notStartup

\* autohotkey.py:230-243: the two paths are looked up.
SuGate ==
    /\ su_pc = "gate"
    /\ LET gate == startup_gate(get_script_path(Home), startup_folder(su_appdata))
       IN  IF gate = "copy"
           THEN su_pc' = "copying" /\ UNCHANGED su_msg
           ELSE su_pc' = "paused" /\ su_msg' = gate
    /\ UNCHANGED <<su_op, su_appdata, su_files, su_launches, su_calls>>
    /\ UNCHANGED notStartup

\* autohotkey.py:245-252: shutil.copy2 ends.
SuCopyEnds ==
    /\ su_pc = "copying"
    /\ \E end \in copy2_ends(su_files, get_script_path(Home)) :
         IF end = "copied"
         THEN /\ su_files' = su_files \cup {shortcut_path(su_appdata)}
              /\ su_msg' = "added_to_startup"
         ELSE /\ su_msg' = "error_adding_to_startup"
              /\ UNCHANGED su_files
    /\ su_pc' = "paused"
    /\ UNCHANGED <<su_op, su_appdata, su_launches, su_calls>>
    /\ UNCHANGED notStartup

\* autohotkey.py:193, 254: Enter ends the pause and the method returns.
SuPauseEnds ==
    /\ su_pc = "paused"
    /\ su_pc' = "returned"
    /\ UNCHANGED <<su_op, su_appdata, su_files, su_launches, su_msg, su_calls>>
    /\ UNCHANGED notStartup

StartupNext ==
    \/ SuCall
    \/ SuCreateScript
    \/ SuInstalledCheckEnds
    \/ SuFirstPollEnds
    \/ SuPopenEnds
    \/ SuSecondPollEnds
    \/ SuGate
    \/ SuCopyEnds
    \/ SuPauseEnds

SpecStartup == StartupInit /\ [][StartupNext]_vars

(***************************************************************************)
(* C1.  After the user confirms, the command of run_powershell_script is   *)
(* the idiom of the first marker found in the URL, in the order            *)
(* get.activated.win, win11debloat.raphi.re, christitus.com/win,           *)
(* git.io/debloat11; a URL with none of them gets the generic scriptblock  *)
(* wrapper; the command is exactly one of the five idioms.                 *)
(***************************************************************************)
UrlHas(m) == \E i \in DOMAIN script_url : script_url[i] = m

Idioms ==
    [activation |-> <<"irm ">> \o script_url \o <<" | iex">>,
     win11debloat |-> <<"& ([scriptblock]::Create((irm \"">> \o script_url \o <<"\")))">>,
     tweaks |-> <<"iwr -useb ">> \o script_url \o <<" | iex">>,
     debloat11 |-> <<"iwr ">> \o script_url \o <<"|iex">>,
     generic |-> <<"[scriptblock]::Create((irm \"">> \o script_url \o <<"\"))">>]

C1_IdiomByFirstMarker ==
    ps_pc \in {"exec", "raised"} =>
        /\ UrlHas("get.activated.win") => ps_command = Idioms.activation
        /\ (~UrlHas("get.activated.win") /\ UrlHas("win11debloat.raphi.re")) =>
              ps_command = Idioms.win11debloat
        /\ (~UrlHas("get.activated.win") /\ ~UrlHas("win11debloat.raphi.re")
              /\ UrlHas("christitus.com/win")) =>
              ps_command = Idioms.tweaks
        /\ (~UrlHas("get.activated.win") /\ ~UrlHas("win11debloat.raphi.re")
              /\ ~UrlHas("christitus.com/win") /\ UrlHas("git.io/debloat11")) =>
              ps_command = Idioms.debloat11
        /\ (~UrlHas("get.activated.win") /\ ~UrlHas("win11debloat.raphi.re")
              /\ ~UrlHas("christitus.com/win") /\ ~UrlHas("git.io/debloat11")) =>
              ps_command = Idioms.generic
        /\ Cardinality({k \in DOMAIN Idioms : ps_command = Idioms[k]}) = 1

\* A URL holding two markers, the later-tested one first, was confirmed.
C1_Witness ==
    /\ ps_pc = "exec"
    /\ script_url = <<"https://", "win11debloat.raphi.re", "get.activated.win">>
    /\ ps_command = <<"irm ", "https://", "win11debloat.raphi.re", "get.activated.win", " | iex">>

(***************************************************************************)
(* C3.  An install whose process exits non-zero is reported as success     *)
(* exactly when stderr contains, in any letter case, "already installed"   *)
(* or "already exists" (winget installs) / "already installed" or          *)
(* "up to date" (npm installs); exit code 0 is always success.             *)
(***************************************************************************)
\* `phrase` (lower case) occurs in `text`, letter case ignored.
OccursAnyCase(phrase, text) ==
    \E i \in 0..(Len(text) - Len(phrase)) :
        SameLetters(SubSeq(text, i + 1, i + Len(phrase)), phrase)

C3_AlreadyInstalled ==
    (in_pc = "returned" /\ in_outcome.kind = "exit") =>
        /\ in_outcome.code = 0 => in_ret = "True"
        /\ (in_outcome.code # 0 /\ in_call.fn \in {"install_app_winget_version", "install_app_winget"}) =>
              (in_ret = "True" <=>
                  \/ OccursAnyCase(<<"a", "l", "r", "e", "a", "d", "y", " ", "i", "n", "s", "t", "a", "l", "l", "e", "d">>, in_outcome.stderr)
                  \/ OccursAnyCase(<<"a", "l", "r", "e", "a", "d", "y", " ", "e", "x", "i", "s", "t", "s">>, in_outcome.stderr))
        /\ (in_outcome.code # 0 /\ in_call.fn = "install_npm_tool") =>
              (in_ret = "True" <=>
                  \/ OccursAnyCase(<<"a", "l", "r", "e", "a", "d", "y", " ", "i", "n", "s", "t", "a", "l", "l", "e", "d">>, in_outcome.stderr)
                  \/ OccursAnyCase(<<"u", "p", " ", "t", "o", " ", "d", "a", "t", "e">>, in_outcome.stderr))

\* winget exited 1 saying "ALREADY EXISTS" and the install reported success.
C3_Witness ==
    /\ in_pc = "returned"
    /\ in_call.fn = "install_app_winget_version"
    /\ in_outcome.kind = "exit"
    /\ in_outcome.code = 1
    /\ in_outcome.stderr = <<"N", "o", " ", "p", "a", "c", "k", "a", "g", "e", " ", "f", "o", "u", "n", "d", "A", "L", "R", "E", "A", "D", "Y", " ", "E", "X", "I", "S", "T", "S">>
    /\ in_ret = "True"

(***************************************************************************)
(* C5.  get_confirmation returns True on an empty line and on y / yes in   *)
(* any letter case (surrounding blanks ignored), returns False on n / no   *)
(* in any case, and on every other line asks again without returning.      *)
(***************************************************************************)
\* `raw` is blanks, then `w` in any case, then blanks.
SaysWord(raw, w) ==
    \E i \in 0..Len(raw), j \in 0..Len(raw) :
        /\ i + Len(w) = j
        /\ \A k \in 1..i : IsSpace(raw[k])
        /\ \A k \in (j + 1)..Len(raw) : IsSpace(raw[k])
        /\ SameLetters(SubSeq(raw, i + 1, j), w)

SaysYes(raw) == SaysWord(raw, <<>>) \/ SaysWord(raw, <<"y">>) \/ SaysWord(raw, <<"y", "e", "s">>)

SaysNo(raw) == SaysWord(raw, <<"n">>) \/ SaysWord(raw, <<"n", "o">>)

C5_Confirmation ==
    [][cf_pc = "read" =>
          /\ SaysYes(cf_response) => (cf_pc' = "returned" /\ cf_ret' = "True")
          /\ SaysNo(cf_response) => (cf_pc' = "returned" /\ cf_ret' = "False")
          /\ (~SaysYes(cf_response) /\ ~SaysNo(cf_response)) =>
                (cf_pc' = "prompt" /\ cf_ret' = "none")]_vars

\* A mixed-case, padded "yes" was accepted after two rejected lines.
C5_Witness ==
    /\ cf_pc = "returned"
    /\ cf_ret = "True"
    /\ cf_reads = 3
    /\ cf_response = <<" ", "Y", "e", "s">>

(***************************************************************************)
(* C6.  As claimed: every yes/no question treats an empty line as "yes".   *)
(***************************************************************************)
C6_EveryPromptDefaultsYes ==
    (cf_pc = "returned" /\ cf_response = <<>>) => cf_ret = "True"

(***************************************************************************)
(* C6, amended.  Every question asked through get_confirmation treats an   *)
(* empty line as "yes"; the inline Node.js prompt of the AI-tools menu     *)
(* treats an empty line as "no".                                           *)
(***************************************************************************)
C6_EmptyLineBySite ==
    [][(cf_pc = "read" /\ cf_response = <<>>) =>
          /\ cf_pc' = "returned"
          /\ cf_site \in ConfirmSites => cf_ret' = "True"
          /\ cf_site = NodePromptSite => cf_ret' = "False"]_vars

C6_Witness ==
    /\ cf_pc = "returned"
    /\ cf_response = <<>>
    /\ cf_site = "install_all_apps"
    /\ cf_ret = "True"

(***************************************************************************)
(* C7.  extract_guid_from_output returns the first substring of the form   *)
(* {8hex-4hex-4hex-4hex-12hex} of a text that has one, and None for a text *)
(* that has none; on None the callers print a failure and go back to the   *)
(* menu.                                                                   *)
(***************************************************************************)
StrictStarts(output) == {i \in 1..Len(output) : guid_pattern_strict_at(output, i)}

FirstStrictGuid(output) ==
    LET first == CHOOSE i \in StrictStarts(output) : \A j \in StrictStarts(output) : i <= j
    IN  SubSeq(output, first, first + GuidLen + 1)

NoGuidMessages ==
    {"Could not extract GUID from output", "Could not extract base plan GUID",
     "Could not extract new plan GUID"}

C7_ExtractsFirstGuid ==
    pw_output # <<>> =>
        /\ StrictStarts(pw_output) # {} => pw_guid = FirstStrictGuid(pw_output)
        /\ StrictStarts(pw_output) = {} =>
              /\ pw_guid = <<>>
              /\ pw_pc = "menu"
              /\ pw_printed # <<>>
              /\ pw_printed[Len(pw_printed)] \in NoGuidMessages

(***************************************************************************)
(* C8.  Every value extract_guid_from_output returns, and so every GUID    *)
(* handed to powercfg -setactive or powercfg -changename, has the shape    *)
(* { 8 hex - 4 hex - 4 hex - 4 hex - 12 hex }.                             *)
(***************************************************************************)
HasGuidShape(g) ==
    /\ Len(g) = GuidLen + 2
    /\ g[1] = "{"
    /\ g[GuidLen + 2] = "}"
    /\ \A k \in 1..GuidLen :
         IF k \in {9, 14, 19, 24} THEN g[k + 1] = "-" ELSE g[k + 1] \in HexDigits

C8_OnlyGuidShapedValues ==
    /\ pw_guid # <<>> => HasGuidShape(pw_guid)
    /\ \A n \in DOMAIN pw_cmds :
         pw_cmds[n].op \in {"powercfg -setactive", "powercfg -changename"} =>
             HasGuidShape(SubSeq(pw_cmds[n].arg, 1, GuidLen + 2))

(***************************************************************************)
(* C9.  print_menu prints every option exactly once, as "[key] title", in  *)
(* the mapping's insertion order, and the width it computes is the largest *)
(* of the title's length, the longest "[key] title" and 40.                *)
(***************************************************************************)
\* The text "[key] title" of the i-th option, 'Unknown' for an absent title.
OptionLine(i) ==
    <<"[">> \o <<mn_options[i].key>> \o <<"]">> \o <<" ">>
        \o (IF mn_options[i].has_title THEN mn_options[i].title
            ELSE <<"U", "n", "k", "n", "o", "w", "n">>)

C9_MenuLinesAndWidth ==
    mn_pc = "printed" =>
        LET N == Len(mn_options)
            widths == {Len(mn_title), 40} \cup {Len(OptionLine(i)) : i \in 1..N}
            \* the printed lines between the underline and the closing blank line
            body == SubSeq(mn_printed, 3, Len(mn_printed) - 1)
        IN  /\ Len(body) = N
            /\ \A i \in 1..N :
                 /\ body[i] = <<" ", " ", " ", " ", " ">> \o OptionLine(i)
                 /\ Cardinality({j \in 1..Len(body) : body[j] = body[i]}) = 1
            /\ mn_width \in widths
            /\ \A w \in widths : mn_width >= w

\* Three options, one without a title, the longest line 41 characters.
C9_Witness ==
    /\ mn_pc = "printed"
    /\ Len(mn_options) = 3
    /\ mn_options[1].key = "a"
    /\ mn_options[3].key = "0"
    /\ ~mn_options[2].has_title
    /\ mn_width = 41
    /\ Len(mn_printed) = 6

(***************************************************************************)
(* C4.  Answering no (n / no, any case) to the confirmation of             *)
(* install_all_apps spawns no winget install, leaves the app list as it    *)
(* was and takes control back to the head of the installer's menu loop;    *)
(* answering no to install_all_tools runs no npm install and no iFlow      *)
(* install, leaves the tool list as it was and goes back to the AI tools   *)
(* menu loop.                                                              *)
(***************************************************************************)
C4_InstallAllDeclined ==
    [][/\ (fl_pc = "install_all_apps_confirm" /\ SaysNo(fl_response')) =>
             /\ fl_pc' = "installer_check"
             /\ fl_spawned = <<>> /\ fl_spawned' = <<>>
             /\ apps' = apps
             /\ fl_msgs' = "operation_cancelled"
       /\ (fl_pc = "install_all_tools_confirm" /\ SaysNo(fl_response')) =>
             /\ fl_pc' = "ai_tools_check"
             /\ fl_spawned = <<>> /\ fl_spawned' = <<>>
             /\ tools' = tools
             /\ fl_msgs' = "operation_cancelled"]_vars

\* "Install All Apps" has just been declined with " No".
C4_Witness ==
    /\ fl_pc = "installer_check"
    /\ fl_menu = "installer"
    /\ fl_msgs = "operation_cancelled"
    /\ fl_response = <<" ", "N", "o">>
    /\ fl_spawned = <<>>
    /\ Len(apps) = 5

(***************************************************************************)
(* C10.  As stated: in every module that depends on an external tool       *)
(* (installer: winget; AI tools: node and npm; AutoHotkey:                 *)
(* AutoHotkey64.exe; power: powercfg), while that tool is absent the       *)
(* module's menu is not rendered and no command is dispatched.             *)
(***************************************************************************)
ModulePositions(m) ==
    CASE m = "installer" ->
            {"installer_check", "installer_menu", "install_all_apps_confirm",
             "install_all_apps_running"}
      [] m = "ai_tools" ->
            {"ai_tools_check", "node_prompt", "node_install_running", "ai_tools_menu",
             "install_all_tools_confirm", "install_all_tools_running", "iflow_confirm",
             "iflow_running"}
      [] m = "autohotkey" ->
            {"autohotkey_menu", "autohotkey_install_confirm", "autohotkey_install_running"}
      [] OTHER -> {"power_menu", "power_list_running"}

ModuleNeeds(m) ==
    CASE m = "installer" -> {"winget"}
      [] m = "ai_tools" -> {"node", "npm"}
      [] m = "autohotkey" -> {"AutoHotkey64.exe"}
      [] OTHER -> {"powercfg"}

C11_NoExceptionEscapes == pb_pc # "escaped"

(***************************************************************************)
(* C12.  Every blocking external process invocation ends: whether or not   *)
(* the child ever exits, subprocess.run comes back (with TimeoutExpired at *)
(* the latest) and the action that called it goes on to its return.        *)
(***************************************************************************)
C12_EveryWaitEnds == (wt_pc = "waiting") ~> (wt_pc = "returned")

C14_ElevationFailureNotFatal ==
    /\ el_asked <= 1
    /\ el_pc = "exited" => (el_shell.kind = "returned" /\ el_shell.code > 32)
    /\ (el_pc = "main_menu" /\ ~is_admin) =>
          /\ el_asked = 1
          /\ \/ el_msgs[Len(el_msgs)] = "some_features_may_not_work"
             \/ el_msgs[Len(el_msgs)] = "failed_to_relaunch_as_admin"

(***************************************************************************)
(* C15.  At the main menu the line read, blanks around it ignored, decides *)
(* alone: 1..6 enter debloat, settings, power, installer, AI tools and     *)
(* AutoHotkey; 0 prints the farewell and ends the loop; any other line     *)
(* prints the invalid-option message, starts nothing and shows the menu    *)
(* again.  Whenever a module returns the main menu is rendered again, and  *)
(* the loop ends in no other way than by 0.                                *)
(***************************************************************************)
\* `raw` is the key `k` with blanks around it.
IsKey(raw, k) ==
    \E i \in 1..Len(raw) :
        /\ raw[i] = k
        /\ \A j \in 1..Len(raw) : j # i => raw[j] = " "

C15_MainMenuLoop ==
    [][/\ fl_pc = "main" =>
             /\ IsKey(fl_response', "1") => (fl_pc' = "debloat_menu" /\ fl_menu' = "debloat")
             /\ IsKey(fl_response', "2") => (fl_pc' = "settings_menu" /\ fl_menu' = "settings")
             /\ IsKey(fl_response', "3") => (fl_pc' = "power_menu" /\ fl_menu' = "power")
             /\ IsKey(fl_response', "4") => fl_pc' = "installer_check"
             /\ IsKey(fl_response', "5") => fl_pc' = "ai_tools_check"
             /\ IsKey(fl_response', "6") => (fl_pc' = "autohotkey_menu" /\ fl_menu' = "autohotkey")
             /\ IsKey(fl_response', "0") => (fl_pc' = "exited" /\ fl_msgs' = "goodbye")
             /\ (\A k \in {"0", "1", "2", "3", "4", "5", "6"} : ~IsKey(fl_response', k)) =>
                   /\ fl_pc' = "main"
                   /\ fl_menu' = "main"
                   /\ fl_msgs' = "invalid_option"
             /\ fl_spawned' = <<>>
             /\ UNCHANGED <<apps, tools, fl_env>>
       /\ (fl_pc # "main" /\ fl_pc' = "main") => fl_menu' = "main"
       /\ fl_pc' = "exited" => (fl_pc = "exited" \/ (fl_pc = "main" /\ IsKey(fl_response', "0")))
       /\ fl_pc = "exited" => fl_pc' = "exited"]_vars

\* "6 " was typed at the main menu and the AutoHotkey menu is on screen.
C15_Witness ==
    /\ fl_pc = "autohotkey_menu"
    /\ fl_menu = "autohotkey"
    /\ fl_response = <<"6", " ">>
    /\ fl_spawned = <<>>

(***************************************************************************)
(* C16.  get_menu_choice ends a read in one of three ways only: it returns *)
(* a key of the options mapping; in the key-press path it leaves the       *)
(* process with exit code 0 on q or Q that is no option key; or it rejects *)
(* the key or line and prompts again.  In the line path q is rejected like *)
(* any other line that is no option key.                                   *)
(***************************************************************************)
C16_OnlyOptionKeysReturned ==
    /\ gc_pc \in {"idle", "reading", "paused", "returned", "exited"}
    /\ gc_pc = "returned" => gc_ret \in gc_options
    /\ gc_pc = "exited" =>
          /\ gc_path = "keypress"
          /\ gc_key \in {<<"q">>, <<"Q">>}
          /\ gc_key \notin gc_options
    /\ (gc_path = "line" /\ gc_key = <<"q">> /\ <<"q">> \notin gc_options) =>
          gc_pc \in {"paused", "reading"}

(***************************************************************************)
(* C17.  The debloat menu shows the numbers 1..N, N the number of          *)
(* configured scripts, in the order debloat, tweaks, activation; a choice  *)
(* k in 1..N runs the script shown with number k; a numeric choice outside *)
(* 1..N runs no script and shows "Invalid option"; "0" leaves the module.  *)
(***************************************************************************)
\* Number of configured scripts.
ScriptTotal == Len(db_scripts.debloat) + Len(db_scripts.tweaks) + Len(db_scripts.activation)

\* Value of a digit character, the superscript nine included.
DigitOf(c) == IF c = "SUP9" THEN 9 ELSE DecimalValue[c]

RECURSIVE NumberOf(_)
NumberOf(s) ==
    IF s = <<>> THEN 0
    ELSE NumberOf(SubSeq(s, 1, Len(s) - 1)) * 10 + DigitOf(s[Len(s)])

\* The line is a number: non-empty, digits only.
IsNumber(s) ==
    /\ s # <<>>
    /\ \A i \in 1..Len(s) : s[i] \in DOMAIN DecimalValue \cup {"SUP9"}

C17_NumberingConsistent ==
    db_pc # "idle" =>
        /\ Len(db_shown) = ScriptTotal
        /\ \A i \in 1..Len(db_shown) : db_shown[i].number = i
        /\ \A i, j \in 1..Len(db_shown) :
              (i < j) =>
                 \/ db_shown[i].script.category = db_shown[j].script.category
                       /\ db_shown[i].script.key < db_shown[j].script.key
                 \/ <<db_shown[i].script.category, db_shown[j].script.category>>
                       \in {<<"debloat", "tweaks">>, <<"debloat", "activation">>,
                            <<"tweaks", "activation">>}
        /\ (IsNumber(db_choice) /\ NumberOf(db_choice) \in 1..ScriptTotal) =>
              /\ db_pc \in {"running", "paused", "menu"}
              /\ \E i \in 1..Len(db_shown) :
                    /\ db_shown[i].number = NumberOf(db_choice)
                    /\ db_shown[i].script = db_ran
        /\ (IsNumber(db_choice) /\ NumberOf(db_choice) \notin 1..ScriptTotal
                /\ db_choice # <<"0">>) =>
              /\ db_pc \in {"paused", "menu"}
              /\ db_ran = NoScript
              /\ db_msg = "invalid_option"
        /\ db_choice = <<"0">> <=> db_pc = "left"

(***************************************************************************)
(* C18.  check_program_exists tries the candidates of the program name in  *)
(* order, stops at the first whose "--version" exits with 0 and returns    *)
(* True; it returns False when every candidate has failed, however it      *)
(* failed, and never raises.                                               *)
(***************************************************************************)
C18_ProbeFailureYieldsFalse ==
    pb_site.fn = "check_program_exists" =>
        /\ pb_pc \in {"probing", "returned"}
        /\ \A i \in 1..Len(pb_log) : i < Len(pb_log) => pb_log[i] # "exit0"
        /\ Len(pb_log) <= Len(pb_cands)
        /\ pb_pc = "returned" =>
              /\ pb_ret = "True" <=> (\E i \in 1..Len(pb_log) : pb_log[i] = "exit0")
              /\ pb_ret = "False" <=> (Len(pb_log) = Len(pb_cands)
                                          /\ \A i \in 1..Len(pb_log) : pb_log[i] # "exit0")

(***************************************************************************)
(* C19.  One call of run_script launches at most one AutoHotkey process,   *)
(* and none when is_script_running reported a running instance; after a    *)
(* launch it polls the process list exactly once, after the wait; when     *)
(* that poll is negative it reports the failure and neither launches nor   *)
(* polls again.                                                            *)
(***************************************************************************)
C19_OneLaunchOnePoll ==
    /\ rs_launches <= 1
    /\ rs_polls <= rs_launches
    /\ rs_first = "True" => (rs_launches = 0 /\ rs_polls = 0)
    /\ (rs_launches = 1 /\ rs_pc \in {"paused", "returned"}) =>
          /\ rs_polls = 1
          /\ rs_second = "False" => rs_msg = "failed_to_start"
          /\ rs_second = "True" => rs_msg = "now_running"
    /\ (rs_polls = 1) = (rs_second # "none")
    /\ rs_second = "False" => rs_pc \in {"paused", "returned"}

\* The launched process ended during the wait: the single poll was negative
\* and run_script returned after reporting the failure.
C19_Witness ==
    /\ rs_pc = "returned"
    /\ rs_launches = 1
    /\ rs_polls = 1
    /\ rs_child = "exited"
    /\ rs_second = "False"
    /\ rs_msg = "failed_to_start"

(***************************************************************************)
(* C20.  As stated: after every call of create_script the file holds the   *)
(* template, so the content after a later call equals the content after    *)
(* the first, and every call reports the same path.                        *)
(***************************************************************************)
\* The text on disk read back in text mode: CR LF is a line feed again.
ReadBack(content) == SelectSeq(content, LAMBDA piece : piece # "\r")

\* <Documents>/AutoHotKey/automation.ahk under the home directory.
ScriptPath == <<cs_home, "Documents", "AutoHotKey", "automation.ahk">>

C20_EveryCallWritesTemplate ==
    /\ \A i \in 1..Len(cs_log) :
          /\ cs_log[i].file.exists
          /\ ReadBack(cs_log[i].file.content) = AHK_SCRIPT_CONTENT
          /\ cs_log[i].path = ScriptPath
    /\ \A i, j \in 1..Len(cs_log) : cs_log[i].file = cs_log[j].file

(***************************************************************************)
(* C20, amended.  Every call of create_script that succeeds leaves the     *)
(* file holding exactly the template, whatever it held before, and reports *)
(* the path <Documents>/AutoHotKey/automation.ahk; so the file is the same *)
(* after any two successful calls.  A call that fails reports no path and  *)
(* leaves the file as it was or cut short.                                 *)
(***************************************************************************)
C20_SuccessfulCallsWriteTemplate ==
    /\ \A i \in 1..Len(cs_log) :
          /\ cs_log[i].ok =>
                /\ cs_log[i].file.exists
                /\ ReadBack(cs_log[i].file.content) = AHK_SCRIPT_CONTENT
                /\ cs_log[i].path = ScriptPath
          /\ ~cs_log[i].ok =>
                /\ cs_log[i].path = NoPath
                /\ ReadBack(cs_log[i].file.content) # AHK_SCRIPT_CONTENT
                      \/ (i > 1 /\ cs_log[i].file = cs_log[i - 1].file)
    /\ \A i, j \in 1..Len(cs_log) :
          (cs_log[i].ok /\ cs_log[j].ok) => cs_log[i].file = cs_log[j].file

\* Two successful calls have returned: the file and the reported path are
\* those of the first call.
C20_Witness ==
    /\ Len(cs_log) >= 2
    /\ cs_log[1].ok
    /\ cs_log[2].ok
    /\ cs_log[1].file = cs_log[2].file
    /\ cs_log[2].path = cs_log[1].path
    /\ cs_file = cs_log[2].file
    /\ cs_pc = "returned"

(***************************************************************************)
(* C21.  An add appends exactly one entry, the one given, whether or not   *)
(* its id, package or name is in the list already, and returns True.  A    *)
(* remove takes out exactly the first entry with the given name and        *)
(* returns True; when no entry has that name it returns False and the list *)
(* is as before.                                                           *)
(***************************************************************************)
\* `list` is `before` without its entry at position i.
Without(before, list, i) ==
    /\ Len(list) = Len(before) - 1
    /\ \A j \in 1..Len(list) : list[j] = IF j < i THEN before[j] ELSE before[j + 1]

C21_AddAppendsRemoveFirst ==
    /\ cu_op.fn = "add" =>
          /\ Len(cu_list) = Len(cu_before) + 1
          /\ \A j \in 1..Len(cu_before) : cu_list[j] = cu_before[j]
          /\ cu_list[Len(cu_list)].name = cu_op.name
          /\ cu_op.key \in {IF cu_kind = "apps" THEN cu_list[Len(cu_list)].id
                                              ELSE cu_list[Len(cu_list)].package}
          /\ cu_ret = "True"
    /\ cu_op.fn = "remove" =>
          IF \E i \in 1..Len(cu_before) : cu_before[i].name = cu_op.name
          THEN /\ cu_ret = "True"
               /\ \E i \in 1..Len(cu_before) :
                     /\ cu_before[i].name = cu_op.name
                     /\ \A j \in 1..(i - 1) : cu_before[j].name # cu_op.name
                     /\ Without(cu_before, cu_list, i)
          ELSE /\ cu_ret = "False"
               /\ cu_list = cu_before

\* Two apps named "Git" were in the list, the default one and a custom one
\* with the same id; the remove took out the first only.
C21_Witness ==
    /\ cu_kind = "apps"
    /\ cu_op = [fn |-> "remove", key |-> "", name |-> "Git"]
    /\ cu_ret = "True"
    /\ Len(cu_before) = 6
    /\ cu_before[4].name = "Git"
    /\ cu_before[6] = [id |-> "Git.Git", name |-> "Git"]
    /\ Len(cu_list) = 5
    /\ cu_list[5] = [id |-> "Git.Git", name |-> "Git"]

(***************************************************************************)
(* C22.  For every app, choosing the option shown as "Install latest"      *)
(* calls install_app_winget_version with the id of that app and the        *)
(* version "latest"; the choice never raises an exception out of the       *)
(* installer.                                                              *)
(***************************************************************************)
\* The title shown next to the key chosen.
ChosenTitle ==
    IF \E i \in 1..Len(ao_options) : ao_options[i].key = ao_choice
    THEN (CHOOSE o \in {ao_options[i] : i \in 1..Len(ao_options)} : o.key = ao_choice).title
    ELSE <<>>

C22_InstallLatestInstalls ==
    /\ ao_pc # "raised"
    /\ (ao_choice # "" /\ ChosenTitle = <<"Install", "latest">>) =>
          /\ ao_call.id = ao_app.id
          /\ ao_call.version = "latest"
          /\ ao_pc \in {"installing", "options_menu"}

(***************************************************************************)
(* C23.  Whatever tools were added and removed, the AI tools menu shows    *)
(* every key once, every listed tool has its own line under its number,    *)
(* the iFlow CLI line is there, and the key chosen starts the action whose *)
(* title is shown next to it: the n-th tool for its number, the iFlow CLI  *)
(* installer for the iFlow CLI line.                                       *)
(***************************************************************************)
\* The title shown next to `key` in the AI tools menu.
ShownTitle(key) ==
    (CHOOSE o \in {cu_options[i] : i \in 1..Len(cu_options)} : o.key = key).title

C23_MenuKeysMatchActions ==
    cu_pc \in {"menu", "chosen"} =>
        /\ \A i, j \in 1..Len(cu_options) :
              cu_options[i].key = cu_options[j].key => i = j
        /\ \A n \in 1..Len(cu_list) :
              \E i \in 1..Len(cu_options) :
                  /\ cu_options[i].key = str(n)
                  /\ cu_options[i].title = cu_list[n].name
        /\ \E i \in 1..Len(cu_options) : cu_options[i].title = "iFlow CLI"
        /\ cu_pc = "chosen" =>
              /\ ShownTitle(cu_choice) = "iFlow CLI" => cu_ran.kind = "install_iflow_cli"
              /\ cu_ran.kind = "install_npm_tool" => cu_ran.name = ShownTitle(cu_choice)
              /\ cu_ran.kind = "install_iflow_cli" => ShownTitle(cu_choice) = "iFlow CLI"
              /\ cu_ran # NoAction

(***************************************************************************)
(* C24.  In switch_power_plan a line of the form {8-4-4-4-12 hex digits}   *)
(* passes the validation and, confirmed, reaches powercfg -setactive with  *)
(* that GUID; any other non-empty line gives "Invalid GUID format" and no  *)
(* powercfg -setactive; an empty line gives "No GUID provided".            *)
(***************************************************************************)
\* The running action has printed `msg`.
Printed(msg) == \E i \in 1..Len(pw_printed) : pw_printed[i] = msg

\* A command `op` is among those the running action issued.
Issued(op) == \E i \in 1..Len(pw_cmds) : pw_cmds[i].op = op

\* g is { 8-4-4-4-12 hex digits }.
IsBracedGuid(g) ==
    /\ Len(g) = 38
    /\ g[1] = "{"
    /\ g[38] = "}"
    /\ \A k \in 2..37 :
          IF k \in {10, 15, 20, 25} THEN g[k] = "-" ELSE g[k] \in HexDigits

\* switch_power_plan has read the GUID line.
GuidEntered ==
    /\ pw_action = "switch"
    /\ Printed("Available Power Plans:")
    /\ pw_pc # "s_guid"

C24_GuidValidated ==
    GuidEntered =>
        /\ pw_guid = <<>> =>
              (Printed("No GUID provided") /\ ~Issued("powercfg -setactive"))
        /\ IsBracedGuid(pw_guid) =>
              /\ ~Printed("Invalid GUID format")
              /\ ~Printed("No GUID provided")
              /\ pw_pc = "s_setactive" => pw_cmds[Len(pw_cmds)] = Cmd("powercfg -setactive", pw_guid)
        /\ (pw_guid # <<>> /\ ~IsBracedGuid(pw_guid)) =>
              (Printed("Invalid GUID format") /\ ~Issued("powercfg -setactive"))

(***************************************************************************)
(* C25.  A message saying that a power plan was activated is printed only  *)
(* when powercfg -setactive for that plan returned success, in             *)
(* unlock_ultimate_performance, switch_power_plan and create_custom_plan   *)
(* alike; after a failed activation no such message is shown.              *)
(***************************************************************************)
C25_ActivatedOnlyOnSuccess ==
    /\ (Printed("Ultimate Performance plan activated!")
          \/ Printed("Power plan activated successfully!")
          \/ Printed("Custom plan activated!")) => pw_active = "True"
    /\ pw_active = "False" =>
          /\ ~Printed("Ultimate Performance plan activated!")
          /\ ~Printed("Power plan activated successfully!")
          /\ ~Printed("Custom plan activated!")

(***************************************************************************)
(* C26.  unlock_ultimate_performance issues nothing when the first         *)
(* confirmation is declined; powercfg -setactive comes only after the      *)
(* duplicate command succeeded, a GUID was extracted from its output and   *)
(* the user confirmed, and with that GUID; when the duplicate fails or no  *)
(* GUID is extracted nothing follows the duplicate command; the active     *)
(* scheme is queried after the activation, never before, and the control   *)
(* panel comes last.                                                       *)
(***************************************************************************)
C26_UnlockStepsInOrder ==
    pw_action = "unlock" =>
        /\ (pw_pc = "u_confirm" \/ Printed("Operation cancelled")) => pw_cmds = <<>>
        /\ pw_cmds # <<>> =>
              pw_cmds[1] = Cmd("powercfg -duplicatescheme", ULTIMATE_PERFORMANCE_GUID)
        /\ \A i \in 1..Len(pw_cmds) :
              /\ pw_cmds[i].op = "powercfg -duplicatescheme" => i = 1
              /\ pw_cmds[i].op = "powercfg -setactive" =>
                    /\ i = 2
                    /\ Printed("Power plan created with GUID")
                    /\ pw_cmds[i].arg = pw_guid
                    /\ Len(pw_guid) = 38
                    /\ pw_guid[1] = "{"
                    /\ IsSubstr(pw_guid, pw_output)
              /\ pw_cmds[i].op = "powercfg /getactivescheme" =>
                    /\ i \in {2, 3}
                    /\ Printed("Power plan created with GUID")
                    /\ \A j \in 1..Len(pw_cmds) : pw_cmds[j].op = "powercfg -setactive" => j < i
              /\ pw_cmds[i].op = "powercfg.cpl" =>
                    /\ i = Len(pw_cmds)
                    /\ pw_cmds[i - 1].op = "powercfg /getactivescheme"
        /\ pw_pc = "u_setactive" => pw_answer = "yes"
        /\ (Printed("Failed to duplicate power scheme")
              \/ Printed("Could not extract GUID from output")) =>
                 (Len(pw_cmds) = 1 /\ pw_pc = "menu")
        /\ \A i, j \in 1..Len(pw_printed) :
              (pw_printed[i] = "Current active power scheme:"
                  /\ pw_printed[j] = "Ultimate Performance plan activated!") => j < i

\* The whole sequence ran: duplicate, activation with the extracted GUID,
\* query of the active scheme, control panel.
C26_Witness ==
    /\ pw_action = "unlock"
    /\ pw_pc = "menu"
    /\ Len(pw_cmds) = 4
    /\ pw_cmds[2] = Cmd("powercfg -setactive", pw_guid)
    /\ pw_cmds[3].op = "powercfg /getactivescheme"
    /\ pw_cmds[4].op = "powercfg.cpl"
    /\ pw_active = "True"


(***************************************************************************)
(* C27.  run_script and add_to_startup act only on an existing script      *)
(* file: while <Documents>/AutoHotKey/automation.ahk does not exist, a     *)
(* run_script that got past the installation check has started no          *)
(* AutoHotkey process and, at its pause, has printed 'script not found';   *)
(* an add_to_startup has created no file in the startup folder and, at     *)
(* its pause, has printed 'script not found'.                              *)
(***************************************************************************)
ScriptMissing == get_script_path(Home) \notin su_files

C27_ActOnlyOnExistingScript ==
    ScriptMissing =>
        /\ su_op = "run_script" =>
             /\ su_launches = 0
             /\ su_pc \in {"paused", "returned"} =>
                  su_msg \in {"not_installed", "script_not_found"}
        /\ su_op = "add_to_startup" =>
             /\ shortcut_path(su_appdata) \notin su_files
             /\ su_pc \in {"paused", "returned"} => su_msg = "script_not_found"


(***************************************************************************)
(* C28 as stated.  run_powershell_script reports success regardless of     *)
(* the exit code: once the user has confirmed and the PowerShell process   *)
(* has run and returned, True is returned for every exit code, and the     *)
(* caller prints 'completed successfully'.                                 *)
(***************************************************************************)
ProcessReturned == ps_pc \in {"returned", "reported"} /\ ps_exit.kind = "exit"

C28_TrueForEveryExitCode ==
    ProcessReturned =>
        /\ ps_ret = "True"
        /\ ps_pc = "reported" => ps_report = "completed_successfully"

(***************************************************************************)
(* C28, amended.  After the process has returned, True is returned for     *)
(* every exit code exactly when the temporary file could be removed; False *)
(* is returned only when the user declined, when subprocess.run raised, or *)
(* when removing the temporary file raised.  The caller prints 'completed  *)
(* successfully' exactly for True, so also for a non-zero exit code.       *)
(***************************************************************************)
C28_TrueUnlessRaised ==
    /\ (ProcessReturned /\ ps_raised = "none") => ps_ret = "True"
    /\ (ps_pc \in {"returned", "reported"} /\ ps_ret = "False") =>
          \/ temp_created = 0 /\ ps_spawned = 0
          \/ ps_raised = "subprocess.run" /\ ps_exit.kind = "oserror"
          \/ ps_raised = "os.remove" /\ ps_exit.kind = "exit"
    /\ ps_ret = "True" => ps_exit.kind = "exit" /\ ps_raised = "none"
    /\ ps_pc = "reported" =>
          (ps_report = "completed_successfully" <=> ps_ret = "True")

C28_Witness ==
    /\ ps_pc = "reported"
    /\ ps_exit.kind = "exit"
    /\ ps_exit.code > 0
    /\ ps_ret = "True"
    /\ ps_report = "completed_successfully"


(***************************************************************************)
(* C29 as stated.  After the answer 'no', no temporary file has been       *)
(* created, no PowerShell process spawned, and False is returned; after    *)
(* 'yes', when the function has returned, exactly one temporary file was   *)
(* created, exactly one PowerShell process was spawned, and the temporary  *)
(* file has been removed.                                                  *)
(***************************************************************************)
PsReturned == ps_pc \in {"returned", "reported"}

C29_GatedAndAlwaysRemoved ==
    /\ ps_answer = "no" =>
          temp_created = 0 /\ temp_files = 0 /\ ps_spawned = 0 /\ ps_ret = "False"
    /\ (ps_answer = "yes" /\ PsReturned) =>
          temp_created = 1 /\ ps_spawned = 1 /\ temp_files = 0

(***************************************************************************)
(* C29, amended.  After 'no': no temporary file, no process, False.        *)
(* Nothing is created or spawned before the answer.  After 'yes', when     *)
(* the function has returned: exactly one temporary file was created; one  *)
(* PowerShell process ran unless subprocess.run raised, and then none;     *)
(* the temporary file is gone whenever True is returned and whenever the   *)
(* first or the handler's os.remove succeeded, and otherwise that one      *)
(* file is left behind and False is returned.                              *)
(***************************************************************************)
C29_GatedAndRemovedWhenPossible ==
    /\ ps_answer = "none" => temp_created = 0 /\ temp_files = 0 /\ ps_spawned = 0
    /\ ps_answer = "no" =>
          temp_created = 0 /\ temp_files = 0 /\ ps_spawned = 0 /\ ps_ret = "False"
    /\ (ps_answer = "yes" /\ PsReturned) =>
          /\ temp_created = 1
          /\ ps_spawned = (IF ps_exit.kind = "exit" THEN 1 ELSE 0)
          /\ temp_files \in {0, 1}
          /\ ps_ret = "True" => temp_files = 0
          /\ temp_files = 1 => ps_ret = "False" /\ ps_raised # "none"

C29_Witness ==
    /\ ps_answer = "yes"
    /\ ps_pc = "returned"
    /\ ps_raised = "subprocess.run"
    /\ temp_created = 1
    /\ temp_files = 0


(***************************************************************************)
(* C30.  After a 'yes', install_all_apps calls the install for every app   *)
(* of the list exactly once, in list order, each with version 'latest':    *)
(* while the loop runs, the calls made are those for the first fl_idx      *)
(* apps, and the loop is left only after the call for the last app,        *)
(* however the installs ended.  install_all_tools likewise calls the npm   *)
(* install for every tool once, in list order, and is left only after the  *)
(* last one, for the confirmation of the iFlow CLI step.                   *)
(***************************************************************************)
AppCalls(n) == [i \in 1..n |-> install_all_apps_call(apps[i])]

ToolCalls(n) == [i \in 1..n |-> install_all_tools_call(tools[i])]

AppsLoopRuns == fl_pc = "install_all_apps_running"

ToolsLoopRuns == fl_pc = "install_all_tools_running"

C30_InstallAllAttemptsEveryEntry ==
    /\ [](AppsLoopRuns =>
            /\ fl_idx \in 1..Len(apps)
            /\ fl_calls = AppCalls(fl_idx)
            /\ \A i \in 1..fl_idx : fl_calls[i].version = "latest"
            /\ fl_spawned = [i \in 1..fl_idx |-> winget_install(apps[i].id)])
    /\ [](ToolsLoopRuns =>
            /\ fl_idx \in 1..Len(tools)
            /\ fl_calls = ToolCalls(fl_idx)
            /\ fl_spawned = [i \in 1..fl_idx |-> npm_install(tools[i].package)])
    /\ [](fl_pc = "iflow_confirm" =>
            /\ fl_calls = ToolCalls(Len(tools))
            /\ fl_spawned = [i \in 1..Len(tools) |-> npm_install(tools[i].package)])
    /\ [][(AppsLoopRuns /\ fl_pc' # fl_pc) =>
            /\ fl_idx = Len(apps)
            /\ fl_calls' = fl_calls
            /\ fl_pc' = "installer_check"]_vars
    /\ [][(ToolsLoopRuns /\ fl_pc' # fl_pc) =>
            /\ fl_idx = Len(tools)
            /\ fl_calls' = fl_calls
            /\ fl_pc' = "iflow_confirm"]_vars

C30_Witness ==
    /\ fl_pc = "iflow_confirm"
    /\ fl_msgs \in {"failed_or_already_installed", "timed_out", "error"}
    /\ fl_calls = ToolCalls(Len(tools))
    /\ Len(tools) > 1

====
